---- MODULE Spec2Model ----
(***************************************************************************)
(* Model of kequtech/json-valid: the recursive validation engine of        *)
(* src/src/validator.ts and the format predicates of                       *)
(* src/src/string-format.ts.                                               *)
(*                                                                         *)
(* Values.  A JavaScript value is a record that carries what the code can  *)
(* observe of it: its `typeof`, and for typeof "object" whether it is      *)
(* null, an array or a plain object.                                       *)
(*   null     [typeof |-> "object", cls |-> "null"]                        *)
(*   array    [typeof |-> "object", cls |-> "array", elems |-> <<..>>]     *)
(*   object   [typeof |-> "object", cls |-> "plain", own |-> <<..>>,       *)
(*             inherited |-> <<..>>]  entries <<key, value>>: own in key   *)
(*             order, inherited those reachable through the prototype      *)
(*             chain (ObjectPrototype for the objects of a JSON document)  *)
(*   string   [typeof |-> "string", chars |-> <<"a", "b">>]                *)
(*   number   [typeof |-> "number", fin |-> TRUE, h |-> n]  the number n/2 *)
(*            (fin = FALSE: h = 0 is NaN, h = 1 +Infinity, h = -1          *)
(*            -Infinity); the numbers of a model are the multiples of 1/2  *)
(*   boolean  [typeof |-> "boolean", b |-> TRUE]                           *)
(*                                                                         *)
(* Schemas.  A schema node is a record that has exactly the fields the     *)
(* schema object defines, so that `schema.f !== undefined` is              *)
(* "f" \in DOMAIN schema.  `type` is [isArray, kinds]; `properties` is the *)
(* sequence of its entries <<name, node>> in declaration order;            *)
(* `additionalProperties` is [typeof |-> "boolean", b] or                  *)
(* [typeof |-> "object", node]; `pattern` is the source text of the        *)
(* regular expression as a sequence of characters; const and enum members  *)
(* are values; minimum, maximum, exclusiveMinimum and exclusiveMaximum are *)
(* in halves like the numbers they bound (minimum |-> 2 is minimum: 1);    *)
(* the length and size bounds are plain integers.                          *)
(*                                                                         *)
(* Results.  [ok |-> TRUE], or [ok |-> FALSE, path, message, received]     *)
(* where path is a sequence of [key |-> name] and [index |-> i] steps and  *)
(* received is <<>> (undefined) or <<value>>.                              *)
(***************************************************************************)
EXTENDS Integers, Sequences, FiniteSets, TLC

VARIABLES schema, data, result, called, okObject, holds, mutated

vars == <<schema, data, result, called, okObject, holds, mutated>>

----------------------------------------------------------------------------
(* Value constructors *)

Null == [typeof |-> "object", cls |-> "null"]

Arr(elems) == [typeof |-> "object", cls |-> "array", elems |-> elems]

Obj(own, inherited) ==
  [typeof |-> "object", cls |-> "plain", own |-> own, inherited |-> inherited]

Str(chars) == [typeof |-> "string", chars |-> chars]

Num(h) == [typeof |-> "number", fin |-> TRUE, h |-> h]

IntNum(n) == Num(2 * n)

(* the numbers that are not finite *)
NaN == [typeof |-> "number", fin |-> FALSE, h |-> 0]

Infinity == [typeof |-> "number", fin |-> FALSE, h |-> 1]

NegInfinity == [typeof |-> "number", fin |-> FALSE, h |-> -1]

Bool(b) == [typeof |-> "boolean", b |-> b]

Key(k) == [key |-> k]

(* mutant: the index of an element is recorded one too low *)
Index_OneLow(i) == [index |-> i - 1]

Index(i) == [index |-> i]

----------------------------------------------------------------------------
(* JavaScript primitives the code relies on *)

Min(S) == CHOOSE x \in S : \A y \in S : x <= y

RECURSIVE Join(_, _)
(* Array.prototype.join on a sequence of strings *)
Join(seq, sep) ==
  IF seq = <<>> THEN ""
  ELSE IF Len(seq) = 1 THEN seq[1]
  ELSE seq[1] \o sep \o Join(Tail(seq), sep)

(* the text of a string value *)
Text(chars) == Join(chars, "")

(* String(n) of the number h/2 *)
NumText(h) ==
  IF h % 2 = 0 THEN ToString(h \div 2)
  ELSE (IF h < 0 THEN "-" ELSE "")
       \o ToString((IF h < 0 THEN -h ELSE h) \div 2) \o ".5"

(* template-literal conversion `${v}` of a primitive value *)
Template(v) ==
  CASE v.typeof = "string" -> Text(v.chars)
    [] v.typeof = "number" ->
         IF v.fin THEN NumText(v.h)
         ELSE IF v.h = 0 THEN "NaN" ELSE IF v.h > 0 THEN "Infinity" ELSE "-Infinity"
    [] v.typeof = "boolean" -> IF v.b THEN "true" ELSE "false"
    [] OTHER -> "null"

IsNull(v) == v.typeof = "object" /\ v.cls = "null"

IsArray(v) == v.typeof = "object" /\ v.cls = "array"

(* a === b where b is a primitive *)
StrictEq(a, b) ==
  /\ a.typeof = b.typeof
  /\ CASE a.typeof = "string" -> a.chars = b.chars
       [] a.typeof = "number" ->
            IF a.fin /\ b.fin THEN a.h = b.h
            ELSE ~a.fin /\ ~b.fin /\ a.h = b.h /\ a.h # 0
       [] a.typeof = "boolean" -> a.b = b.b
       [] OTHER -> IsNull(a) /\ IsNull(b)

(* Array.prototype.includes: SameValueZero, which differs from === on NaN *)
Includes(list, v) ==
  \E i \in 1..Len(list) :
    \/ StrictEq(v, list[i])
    \/ /\ v.typeof = "number" /\ list[i].typeof = "number"
       /\ ~v.fin /\ ~list[i].fin /\ v.h = 0 /\ list[i].h = 0

NumberIsInteger(v) == v.typeof = "number" /\ v.fin /\ v.h % 2 = 0

NumberIsFinite(v) == v.typeof = "number" /\ v.fin

(* what an object literal, or an object that JSON.parse built, inherits  *)
(* from Object.prototype: methods, of which two stand for all             *)
ObjectPrototype ==
  << <<"constructor", [typeof |-> "function"]>>,
     <<"toString", [typeof |-> "function"]>> >>

OwnKeys(entries) == {entries[i][1] : i \in 1..Len(entries)}

ObjectPrototypeKeys == OwnKeys(ObjectPrototype)

(* mutant: `key in data`, which also sees inherited properties *)
HasOwn_In(v, key) == key \in OwnKeys(v.own) \cup OwnKeys(v.inherited)

(* Object.hasOwn(data, key) *)
HasOwn(v, key) == key \in OwnKeys(v.own)

Lookup(entries, key) ==
  entries[CHOOSE i \in 1..Len(entries) : entries[i][1] = key][2]

(* data[key]: own property first, then the prototype chain *)
Get(v, key) ==
  IF key \in OwnKeys(v.own) THEN Lookup(v.own, key)
  ELSE IF key \in OwnKeys(v.inherited) THEN Lookup(v.inherited, key)
  ELSE [typeof |-> "undefined"]

(* key in properties, for the object literal `properties` *)
InProperties(key, properties) ==
  key \in OwnKeys(properties) \cup ObjectPrototypeKeys

----------------------------------------------------------------------------
(* Regular expressions.  A compiled expression is a tree of               *)
(*   [t |-> "bol"]  ^          [t |-> "eol"]  $                           *)
(*   [t |-> "set", neg, chars]  one character in (neg: not in) chars      *)
(*   [t |-> "seq", parts]       [t |-> "alt", alts]                       *)
(*   [t |-> "rep", min, max, r] r{min,max}; max = -1 is unbounded         *)
(*   [t |-> "nla", r]  (?!r)    [t |-> "nlb", chars]  (?<![chars])        *)
(* Ends(re, s, i) is the set of positions at which a match of re that     *)
(* starts at position i of s can end.                                     *)

Bol == [t |-> "bol"]

Eol == [t |-> "eol"]

In(chars) == [t |-> "set", neg |-> FALSE, chars |-> chars]

NotIn(chars) == [t |-> "set", neg |-> TRUE, chars |-> chars]

Cat(parts) == [t |-> "seq", parts |-> parts]

Alt(alts) == [t |-> "alt", alts |-> alts]

Rep(min, max, r) == [t |-> "rep", min |-> min, max |-> max, r |-> r]

Opt(r) == Rep(0, 1, r)

Lit(c) == In({c})

RECURSIVE Ends(_, _, _), SeqEnds(_, _, _), RepEnds(_, _, _, _)
Ends(re, s, i) ==
  CASE re.t = "bol" -> IF i = 1 THEN {i} ELSE {}
    [] re.t = "eol" -> IF i = Len(s) + 1 THEN {i} ELSE {}
    [] re.t = "set" ->
         IF i <= Len(s) /\ ((s[i] \in re.chars) # re.neg) THEN {i + 1} ELSE {}
    [] re.t = "seq" -> SeqEnds(re.parts, s, {i})
    [] re.t = "alt" -> UNION {Ends(re.alts[j], s, i) : j \in 1..Len(re.alts)}
    [] re.t = "rep" -> RepEnds(re, s, {i}, 0)
    [] re.t = "nla" -> IF Ends(re.r, s, i) = {} THEN {i} ELSE {}
    [] re.t = "nlb" -> IF i > 1 /\ s[i - 1] \in re.chars THEN {} ELSE {i}

SeqEnds(parts, s, from) ==
  IF parts = <<>> \/ from = {} THEN from
  ELSE SeqEnds(Tail(parts), s, UNION {Ends(Head(parts), s, p) : p \in from})

RepEnds(re, s, from, n) ==
  (IF n >= re.min THEN from ELSE {})
  \cup (IF from = {} \/ (re.max >= 0 /\ n >= re.max) THEN {}
        ELSE RepEnds(re, s, UNION {Ends(re.r, s, p) : p \in from}, n + 1))

(* RegExp.prototype.test without flags: a match may start anywhere *)
RegExpTest(re, s) == \E i \in 1..(Len(s) + 1) : Ends(re, s, i) # {}

(* new RegExp(source) for sources made of ^, $, . and literal characters *)
NewRegExp(source) ==
  Cat([i \in 1..Len(source) |->
        CASE source[i] = "^" -> Bol
          [] source[i] = "$" -> Eol
          [] source[i] = "." -> NotIn({"\n"})
          [] OTHER -> Lit(source[i])])

----------------------------------------------------------------------------
(* Format predicates (string-format.ts) *)

Digit == {"0", "1", "2", "3", "4", "5", "6", "7", "8", "9"}

LowerHex == {"a", "b", "c", "d", "e", "f"}

UpperHex == {"A", "B", "C", "D", "E", "F"}

Lower == LowerHex \cup {"g", "h", "i", "j", "k", "l", "m", "n", "o", "p", "q",
                        "r", "s", "t", "u", "v", "w", "x", "y", "z"}

Upper == UpperHex \cup {"G", "H", "I", "J", "K", "L", "M", "N", "O", "P", "Q",
                        "R", "S", "T", "U", "V", "W", "X", "Y", "Z"}

HexDigit == Digit \cup LowerHex \cup UpperHex

Space == {" ", "\t", "\n", "\r", "\f"}

(* ^ parts $ matched by test() *)
Whole(parts) == Cat(<<Bol>> \o parts \o <<Eol>>)

isUuid(value) ==
  LET hex(n) == Rep(n, n, In(HexDigit))
      dash == Lit("-")
  IN RegExpTest(Whole(<<hex(8), dash, hex(4), dash,
                        In({"1", "2", "3", "4", "5"}), hex(3), dash,
                        In({"8", "9", "a", "b", "A", "B"}), hex(3), dash,
                        hex(12)>>), value)

isEmail(value) ==
  LET word == Rep(1, -1, NotIn(Space \cup {"@"}))
  IN RegExpTest(Whole(<<word, Lit("@"), word, Lit("."), word>>), value)

UpperLetters ==
  <<"A", "B", "C", "D", "E", "F", "G", "H", "I", "J", "K", "L", "M",
    "N", "O", "P", "Q", "R", "S", "T", "U", "V", "W", "X", "Y", "Z">>

LowerLetters ==
  <<"a", "b", "c", "d", "e", "f", "g", "h", "i", "j", "k", "l", "m",
    "n", "o", "p", "q", "r", "s", "t", "u", "v", "w", "x", "y", "z">>

ToLower(c) ==
  IF c \in Upper
  THEN LowerLetters[CHOOSE k \in 1..Len(UpperLetters) : UpperLetters[k] = c]
  ELSE c

(* the WHATWG URL parser behind `new URL(value)`, for inputs              *)
(* scheme ":" rest without surrounding white space: the scheme is a       *)
(* letter followed by letters, digits, "+", "-" or "." and is lowercased; *)
(* for http, https and ftp any run of slashes after the colon is skipped  *)
(* and the host runs to the next "/", "?" or "#", an empty host or a      *)
(* forbidden host character being a parse error; other schemes parse      *)
(* with whatever follows the colon.  ok = FALSE stands for the TypeError. *)
UrlParse(value) ==
  LET schemeEnds == Ends(Cat(<<In(Lower \cup Upper),
                               Rep(0, -1, In(Lower \cup Upper \cup Digit
                                             \cup {"+", "-", "."})),
                               Lit(":")>>), value, 1)
      colon == Min(schemeEnds) - 1
      protocol == Text([i \in 1..(colon - 1) |-> ToLower(value[i])]) \o ":"
      afterSlashes ==
        Min({i \in (colon + 1)..(Len(value) + 1) :
               i = Len(value) + 1 \/ value[i] \notin {"/", "\\"}})
      hostEnd ==
        Min({i \in afterSlashes..(Len(value) + 1) :
               i = Len(value) + 1 \/ value[i] \in {"/", "\\", "?", "#"}})
      hostname == SubSeq(value, afterSlashes, hostEnd - 1)
  IN IF schemeEnds = {} THEN [ok |-> FALSE, protocol |-> "", hostname |-> <<>>]
     ELSE IF protocol \in {"http:", "https:", "ftp:"}
     THEN [ok |-> hostname # <<>> /\ \A i \in 1..Len(hostname) :
                                       hostname[i] \notin Space \cup {"<", ">", "^", "|", "%"},
           protocol |-> protocol, hostname |-> hostname]
     ELSE [ok |-> TRUE, protocol |-> protocol, hostname |-> <<>>]

StartsWith(value, prefix) ==
  Len(value) >= Len(prefix) /\ SubSeq(value, 1, Len(prefix)) = prefix

isUri(value) ==
  LET url == UrlParse(value)
  IN IF ~url.ok THEN FALSE
     ELSE IF url.protocol = "" THEN FALSE
     ELSE IF url.protocol \in {"http:", "https:", "ftp:"}
     THEN LET colon == Min({i \in 1..Len(value) : value[i] = ":"})
              prefix == SubSeq(value, 1, colon) \o <<"/", "/">>
          IN IF \/ ~(Text(prefix) = url.protocol \o "//" /\ StartsWith(value, prefix))
                \/ (Len(value) > Len(prefix) /\ value[Len(prefix) + 1] = "/")
             THEN FALSE
             ELSE Len(url.hostname) > 0
     ELSE TRUE

RECURSIVE Split(_, _)
(* String.prototype.split on a one-character separator *)
Split(value, sep) ==
  LET at == {i \in 1..Len(value) : value[i] = sep}
  IN IF at = {} THEN <<value>>
     ELSE <<SubSeq(value, 1, Min(at) - 1)>>
          \o Split(SubSeq(value, Min(at) + 1, Len(value)), sep)

isHostname(value) ==
  IF Len(value) > 253 THEN FALSE
  ELSE LET label == Whole(<<[t |-> "nla", r |-> Lit("-")],
                            Rep(1, 63, In(Lower \cup Upper \cup Digit \cup {"-"})),
                            [t |-> "nlb", chars |-> {"-"}]>>)
           parts == Split(value, ".")
       IN \A i \in 1..Len(parts) : RegExpTest(label, parts[i])

isIpv4(value) ==
  LET d == In(Digit)
      octet == Alt(<<Cat(<<Lit("2"), Lit("5"), In({"0", "1", "2", "3", "4", "5"})>>),
                     Cat(<<Lit("2"), In({"0", "1", "2", "3", "4"}), d>>),
                     Cat(<<Opt(Lit("1")), Rep(1, 2, d)>>)>>)
      dot == Lit(".")
  IN RegExpTest(Whole(<<octet, dot, octet, dot, octet, dot, octet>>), value)

isIpv6(value) ==
  LET g == Rep(1, 4, In(HexDigit))
      c == Lit(":")
      gc(m, n) == Rep(m, n, Cat(<<g, c>>))
      cg(m, n) == Rep(m, n, Cat(<<c, g>>))
      address == Alt(<<Cat(<<gc(7, 7), g>>),
                       Cat(<<gc(1, 7), c>>),
                       Cat(<<c, cg(1, 7)>>),
                       Cat(<<gc(1, 6), c, g>>),
                       Cat(<<gc(1, 5), cg(1, 2)>>),
                       Cat(<<gc(1, 4), cg(1, 3)>>),
                       Cat(<<gc(1, 3), cg(1, 4)>>),
                       Cat(<<gc(1, 2), cg(1, 5)>>),
                       Cat(<<g, c, cg(1, 6)>>)>>)
      zone == Opt(Cat(<<Lit("%"), Rep(1, -1, NotIn({"\n", "\r"}))>>))
  IN RegExpTest(Whole(<<address, zone>>), value)

(* the pieces shared by the date, time and date-time expressions *)
DatePart ==
  LET d == In(Digit)
  IN <<Rep(4, 4, d), Lit("-"),
       Alt(<<Cat(<<Lit("0"), In(Digit \ {"0"})>>),
             Cat(<<Lit("1"), In({"0", "1", "2"})>>)>>),
       Lit("-"),
       Alt(<<Cat(<<Lit("0"), In(Digit \ {"0"})>>),
             Cat(<<In({"1", "2"}), d>>),
             Cat(<<Lit("3"), In({"0", "1"})>>)>>)>>

HourMinute ==
  <<Alt(<<Cat(<<In({"0", "1"}), In(Digit)>>),
          Cat(<<Lit("2"), In({"0", "1", "2", "3"})>>)>>),
    Lit(":"), In({"0", "1", "2", "3", "4", "5"}), In(Digit)>>

TimePart ==
  HourMinute \o <<Lit(":"), In({"0", "1", "2", "3", "4", "5"}), In(Digit),
                  Opt(Cat(<<Lit("."), Rep(1, -1, In(Digit))>>))>>

Zone == Alt(<<Lit("Z"), Cat(<<In({"+", "-"})>> \o HourMinute)>>)

isDateTime(value) ==
  RegExpTest(Whole(DatePart \o <<Lit("T")>> \o TimePart \o <<Zone>>), value)

isDate(value) == RegExpTest(Whole(DatePart), value)

isTime(value) == RegExpTest(Whole(TimePart \o <<Opt(Zone)>>), value)

(* mutant: an unknown name yields `expected` *)
isFormatValid_DefaultExpected(format, value, expected) ==
  CASE format = "uuid" -> isUuid(value) = expected
    [] format = "email" -> isEmail(value) = expected
    [] format = "uri" -> isUri(value) = expected
    [] format = "hostname" -> isHostname(value) = expected
    [] format = "ipv4" -> isIpv4(value) = expected
    [] format = "ipv6" -> isIpv6(value) = expected
    [] format = "date-time" -> isDateTime(value) = expected
    [] format = "date" -> isDate(value) = expected
    [] format = "time" -> isTime(value) = expected
    [] OTHER -> expected

isFormatValid(format, value, expected) ==
  CASE format = "uuid" -> isUuid(value) = expected
    [] format = "email" -> isEmail(value) = expected
    [] format = "uri" -> isUri(value) = expected
    [] format = "hostname" -> isHostname(value) = expected
    [] format = "ipv4" -> isIpv4(value) = expected
    [] format = "ipv6" -> isIpv6(value) = expected
    [] format = "date-time" -> isDateTime(value) = expected
    [] format = "date" -> isDate(value) = expected
    [] format = "time" -> isTime(value) = expected
    [] OTHER -> TRUE

----------------------------------------------------------------------------
(* The validation engine (validator.ts) *)

OK == [ok |-> TRUE]

fail(message, path, received) ==
  [ok |-> FALSE, path |-> path, message |-> message, received |-> received]

Undefined == <<>>

(* mutant: arrays are not told apart from objects *)
getDataKind_NoArray(value) ==
  IF IsNull(value) THEN "null" ELSE value.typeof

getDataKind(value) ==
  IF IsNull(value) THEN "null"
  ELSE IF IsArray(value) THEN "array"
  ELSE value.typeof

isObject(value) ==
  value.typeof = "object" /\ ~IsNull(value) /\ ~IsArray(value)

(* mutant: null is exempt from const *)
isConstMismatch_NullExempt(node, value) ==
  "const" \in DOMAIN node /\ ~IsNull(value) /\ ~StrictEq(value, node.const)

isConstMismatch(node, value) ==
  "const" \in DOMAIN node /\ ~StrictEq(value, node.const)

PRIMITIVE_TYPES == {"string", "number", "boolean"}

(* mutant: null is exempt from enum *)
isEnumMismatch_NullExempt(node, value) ==
  IF "enum" \notin DOMAIN node THEN FALSE
  ELSE IF IsNull(value) THEN FALSE
  ELSE IF value.typeof \notin PRIMITIVE_TYPES THEN TRUE
  ELSE ~Includes(node.enum, value)

isEnumMismatch(node, value) ==
  IF "enum" \notin DOMAIN node THEN FALSE
  ELSE IF ~IsNull(value) /\ value.typeof \notin PRIMITIVE_TYPES THEN TRUE
  ELSE ~Includes(node.enum, value)

(* Array.isArray(schema.type) ? schema.type : [schema.type] *)
TypeList(node) ==
  IF node.type.isArray THEN node.type.list ELSE <<node.type.kind>>

(* Array.from(new Set(list)): first occurrences, in order *)
TypeSetOrder(list) ==
  LET first == {i \in 1..Len(list) : \A j \in 1..(i - 1) : list[j] # list[i]}
      nth(n) == CHOOSE i \in first : Cardinality({j \in first : j <= i}) = n
  IN [n \in 1..Cardinality(first) |-> list[nth(n)]]

(* `${schema.type}`: a kind, or the kinds of a list joined by commas *)
TypeText(node) ==
  IF node.type.isArray THEN Join(node.type.list, ",") ELSE node.type.kind

validateBooleanNode(node, path, value) ==
  IF value.typeof # "boolean" THEN fail("Expected boolean", path, <<value>>)
  ELSE OK

(* mutant: integrality is demanded when 'integer' is the first permitted kind *)
validateNumberNode_FirstKind(node, path, value) ==
  IF value.typeof # "number" \/ ~NumberIsFinite(value)
  THEN fail("Expected " \o TypeText(node), path, <<value>>)
  ELSE IF TypeList(node)[1] = "integer" /\ ~NumberIsInteger(value)
  THEN fail("Expected integer", path, <<value>>)
  ELSE IF "minimum" \in DOMAIN node /\ value.h < node.minimum
  THEN fail("Must be >= " \o NumText(node.minimum), path, <<value>>)
  ELSE IF "maximum" \in DOMAIN node /\ value.h > node.maximum
  THEN fail("Must be <= " \o NumText(node.maximum), path, <<value>>)
  ELSE IF "exclusiveMinimum" \in DOMAIN node /\ ~(value.h > node.exclusiveMinimum)
  THEN fail("Must be > " \o NumText(node.exclusiveMinimum), path, <<value>>)
  ELSE IF "exclusiveMaximum" \in DOMAIN node /\ ~(value.h < node.exclusiveMaximum)
  THEN fail("Must be < " \o NumText(node.exclusiveMaximum), path, <<value>>)
  ELSE OK

(* mutant: integrality is demanded whenever 'integer' is among the permitted kinds *)
validateNumberNode_AnyInteger(node, path, value) ==
  IF value.typeof # "number" \/ ~NumberIsFinite(value)
  THEN fail("Expected " \o TypeText(node), path, <<value>>)
  ELSE IF (\E i \in 1..Len(TypeList(node)) : TypeList(node)[i] = "integer")
          /\ ~NumberIsInteger(value)
  THEN fail("Expected integer", path, <<value>>)
  ELSE IF "minimum" \in DOMAIN node /\ value.h < node.minimum
  THEN fail("Must be >= " \o NumText(node.minimum), path, <<value>>)
  ELSE IF "maximum" \in DOMAIN node /\ value.h > node.maximum
  THEN fail("Must be <= " \o NumText(node.maximum), path, <<value>>)
  ELSE IF "exclusiveMinimum" \in DOMAIN node /\ ~(value.h > node.exclusiveMinimum)
  THEN fail("Must be > " \o NumText(node.exclusiveMinimum), path, <<value>>)
  ELSE IF "exclusiveMaximum" \in DOMAIN node /\ ~(value.h < node.exclusiveMaximum)
  THEN fail("Must be < " \o NumText(node.exclusiveMaximum), path, <<value>>)
  ELSE OK

(* mutant: a bound counts as present when it is truthy *)
validateNumberNode_TruthyBounds(node, path, value) ==
  IF value.typeof # "number" \/ ~NumberIsFinite(value)
  THEN fail("Expected " \o TypeText(node), path, <<value>>)
  ELSE IF ~node.type.isArray /\ node.type.kind = "integer" /\ ~NumberIsInteger(value)
  THEN fail("Expected integer", path, <<value>>)
  ELSE IF "minimum" \in DOMAIN node /\ node.minimum # 0 /\ value.h < node.minimum
  THEN fail("Must be >= " \o NumText(node.minimum), path, <<value>>)
  ELSE IF "maximum" \in DOMAIN node /\ node.maximum # 0 /\ value.h > node.maximum
  THEN fail("Must be <= " \o NumText(node.maximum), path, <<value>>)
  ELSE IF "exclusiveMinimum" \in DOMAIN node /\ node.exclusiveMinimum # 0
          /\ ~(value.h > node.exclusiveMinimum)
  THEN fail("Must be > " \o NumText(node.exclusiveMinimum), path, <<value>>)
  ELSE IF "exclusiveMaximum" \in DOMAIN node /\ node.exclusiveMaximum # 0
          /\ ~(value.h < node.exclusiveMaximum)
  THEN fail("Must be < " \o NumText(node.exclusiveMaximum), path, <<value>>)
  ELSE OK

(* mutant: the exclusive bounds are tested before the inclusive ones *)
validateNumberNode_ExclusiveFirst(node, path, value) ==
  IF value.typeof # "number" \/ ~NumberIsFinite(value)
  THEN fail("Expected " \o TypeText(node), path, <<value>>)
  ELSE IF ~node.type.isArray /\ node.type.kind = "integer" /\ ~NumberIsInteger(value)
  THEN fail("Expected integer", path, <<value>>)
  ELSE IF "exclusiveMinimum" \in DOMAIN node /\ ~(value.h > node.exclusiveMinimum)
  THEN fail("Must be > " \o NumText(node.exclusiveMinimum), path, <<value>>)
  ELSE IF "exclusiveMaximum" \in DOMAIN node /\ ~(value.h < node.exclusiveMaximum)
  THEN fail("Must be < " \o NumText(node.exclusiveMaximum), path, <<value>>)
  ELSE IF "minimum" \in DOMAIN node /\ value.h < node.minimum
  THEN fail("Must be >= " \o NumText(node.minimum), path, <<value>>)
  ELSE IF "maximum" \in DOMAIN node /\ value.h > node.maximum
  THEN fail("Must be <= " \o NumText(node.maximum), path, <<value>>)
  ELSE OK

(* mutant: NaN and the infinities are let through *)
validateNumberNode_NoFiniteCheck(node, path, value) ==
  IF value.typeof # "number"
  THEN fail("Expected " \o TypeText(node), path, <<value>>)
  ELSE IF ~node.type.isArray /\ node.type.kind = "integer" /\ ~NumberIsInteger(value)
  THEN fail("Expected integer", path, <<value>>)
  ELSE IF "minimum" \in DOMAIN node /\ value.fin /\ value.h < node.minimum
  THEN fail("Must be >= " \o NumText(node.minimum), path, <<value>>)
  ELSE IF "maximum" \in DOMAIN node /\ value.fin /\ value.h > node.maximum
  THEN fail("Must be <= " \o NumText(node.maximum), path, <<value>>)
  ELSE IF "exclusiveMinimum" \in DOMAIN node /\ value.fin
          /\ ~(value.h > node.exclusiveMinimum)
  THEN fail("Must be > " \o NumText(node.exclusiveMinimum), path, <<value>>)
  ELSE IF "exclusiveMaximum" \in DOMAIN node /\ value.fin
          /\ ~(value.h < node.exclusiveMaximum)
  THEN fail("Must be < " \o NumText(node.exclusiveMaximum), path, <<value>>)
  ELSE OK

validateNumberNode(node, path, value) ==
  IF value.typeof # "number" \/ ~NumberIsFinite(value)
  THEN fail("Expected " \o TypeText(node), path, <<value>>)
  ELSE IF ~node.type.isArray /\ node.type.kind = "integer" /\ ~NumberIsInteger(value)
  THEN fail("Expected integer", path, <<value>>)
  ELSE IF "minimum" \in DOMAIN node /\ value.h < node.minimum
  THEN fail("Must be >= " \o NumText(node.minimum), path, <<value>>)
  ELSE IF "maximum" \in DOMAIN node /\ value.h > node.maximum
  THEN fail("Must be <= " \o NumText(node.maximum), path, <<value>>)
  ELSE IF "exclusiveMinimum" \in DOMAIN node /\ ~(value.h > node.exclusiveMinimum)
  THEN fail("Must be > " \o NumText(node.exclusiveMinimum), path, <<value>>)
  ELSE IF "exclusiveMaximum" \in DOMAIN node /\ ~(value.h < node.exclusiveMaximum)
  THEN fail("Must be < " \o NumText(node.exclusiveMaximum), path, <<value>>)
  ELSE OK

(* mutant: the pattern is tested before the length bounds *)
validateStringNode_PatternFirst(node, path, value) ==
  IF value.typeof # "string"
  THEN fail("Expected string", path, <<value>>)
  ELSE IF /\ "pattern" \in DOMAIN node
          /\ node.pattern # <<>>
          /\ ~RegExpTest(NewRegExp(node.pattern), value.chars)
  THEN fail("String does not match pattern /" \o Text(node.pattern) \o "/", path, <<value>>)
  ELSE IF "minLength" \in DOMAIN node /\ Len(value.chars) < node.minLength
  THEN fail("String length < " \o ToString(node.minLength), path,
            <<IntNum(Len(value.chars))>>)
  ELSE IF "maxLength" \in DOMAIN node /\ Len(value.chars) > node.maxLength
  THEN fail("String length > " \o ToString(node.maxLength), path,
            <<IntNum(Len(value.chars))>>)
  ELSE IF /\ "format" \in DOMAIN node
          /\ node.format # ""
          /\ ~isFormatValid(node.format, value.chars, TRUE)
  THEN fail("Invalid " \o node.format \o " format", path, <<value>>)
  ELSE IF /\ "not" \in DOMAIN node
          /\ "format" \in DOMAIN node.not
          /\ node.not.format # ""
          /\ ~isFormatValid(node.not.format, value.chars, FALSE)
  THEN fail("Must not be " \o node.not.format \o " format", path, <<value>>)
  ELSE OK

validateStringNode(node, path, value) ==
  IF value.typeof # "string" THEN fail("Expected string", path, <<value>>)
  ELSE IF "minLength" \in DOMAIN node /\ Len(value.chars) < node.minLength
  THEN fail("String length < " \o ToString(node.minLength), path,
            <<IntNum(Len(value.chars))>>)
  ELSE IF "maxLength" \in DOMAIN node /\ Len(value.chars) > node.maxLength
  THEN fail("String length > " \o ToString(node.maxLength), path,
            <<IntNum(Len(value.chars))>>)
  ELSE IF /\ "pattern" \in DOMAIN node /\ node.pattern # <<>>
          /\ ~RegExpTest(NewRegExp(node.pattern), value.chars)
  THEN fail("String does not match pattern /" \o Text(node.pattern) \o "/", path,
            <<value>>)
  ELSE IF /\ "format" \in DOMAIN node /\ node.format # ""
          /\ ~isFormatValid(node.format, value.chars, TRUE)
  THEN fail("Invalid " \o node.format \o " format", path, <<value>>)
  ELSE IF /\ "not" \in DOMAIN node /\ "format" \in DOMAIN node.not
          /\ node.not.format # ""
          /\ ~isFormatValid(node.not.format, value.chars, FALSE)
  THEN fail("Must not be " \o node.not.format \o " format", path, <<value>>)
  ELSE OK

RECURSIVE validateNode(_, _, _), validateObjectNode(_, _, _),
          validateArrayNode(_, _, _)

(* mutant: the elements are validated before the size bounds *)
validateArrayNode_ItemsFirst(node, path, value) ==
  IF ~IsArray(value) THEN fail("Expected array", path, <<value>>)
  ELSE
    LET length == Len(value.elems)
        e(i) == validateNode(node.items, Append(path, Index(i - 1)), value.elems[i])
    IN IF "items" \in DOMAIN node /\ \E i \in 1..length : ~e(i).ok
       THEN e(Min({i \in 1..length : ~e(i).ok}))
       ELSE IF "minItems" \in DOMAIN node /\ length < node.minItems
       THEN fail("Expected at least " \o ToString(node.minItems) \o " items, got "
                 \o ToString(length), path, <<IntNum(length)>>)
       ELSE IF "maxItems" \in DOMAIN node /\ length > node.maxItems
       THEN fail("Expected at most " \o ToString(node.maxItems) \o " items, got "
                 \o ToString(length), path, <<IntNum(length)>>)
       ELSE OK

(* mutant: the size failures carry the array instead of its length *)
validateArrayNode_ReceivedArray(node, path, value) ==
  IF ~IsArray(value) THEN fail("Expected array", path, <<value>>)
  ELSE
    LET length == Len(value.elems)
        e(i) == validateNode(node.items, Append(path, Index(i - 1)), value.elems[i])
    IN IF "minItems" \in DOMAIN node /\ length < node.minItems
       THEN fail("Expected at least " \o ToString(node.minItems) \o " items, got "
                 \o ToString(length), path, <<value>>)
       ELSE IF "maxItems" \in DOMAIN node /\ length > node.maxItems
       THEN fail("Expected at most " \o ToString(node.maxItems) \o " items, got "
                 \o ToString(length), path, <<value>>)
       ELSE IF "items" \in DOMAIN node /\ \E i \in 1..length : ~e(i).ok
       THEN e(Min({i \in 1..length : ~e(i).ok}))
       ELSE OK

(* mutant: the elements are numbered from 1 in the path *)
validateArrayNode_IndexFromOne(node, path, value) ==
  IF ~IsArray(value) THEN fail("Expected array", path, <<value>>)
  ELSE
    LET length == Len(value.elems)
        e(i) == validateNode(node.items, Append(path, Index(i)), value.elems[i])
    IN IF "minItems" \in DOMAIN node /\ length < node.minItems
       THEN fail("Expected at least " \o ToString(node.minItems) \o " items, got "
                 \o ToString(length), path, <<IntNum(length)>>)
       ELSE IF "maxItems" \in DOMAIN node /\ length > node.maxItems
       THEN fail("Expected at most " \o ToString(node.maxItems) \o " items, got "
                 \o ToString(length), path, <<IntNum(length)>>)
       ELSE IF "items" \in DOMAIN node /\ \E i \in 1..length : ~e(i).ok
       THEN e(Min({i \in 1..length : ~e(i).ok}))
       ELSE OK

validateArrayNode(node, path, value) ==
  IF ~IsArray(value) THEN fail("Expected array", path, <<value>>)
  ELSE
    LET length == Len(value.elems)
        e(i) == validateNode(node.items, Append(path, Index(i - 1)), value.elems[i])
    IN IF "minItems" \in DOMAIN node /\ length < node.minItems
       THEN fail("Expected at least " \o ToString(node.minItems) \o " items, got "
                 \o ToString(length), path, <<IntNum(length)>>)
       ELSE IF "maxItems" \in DOMAIN node /\ length > node.maxItems
       THEN fail("Expected at most " \o ToString(node.maxItems) \o " items, got "
                 \o ToString(length), path, <<IntNum(length)>>)
       ELSE IF "items" \in DOMAIN node /\ \E i \in 1..length : ~e(i).ok
       THEN e(Min({i \in 1..length : ~e(i).ok}))
       ELSE OK

(* mutant: the declared properties are validated before `required` *)
validateObjectNode_PropertiesFirst(node, path, value) ==
  LET properties == IF "properties" \in DOMAIN node THEN node.properties ELSE <<>>
      required == IF "required" \in DOMAIN node THEN node.required ELSE <<>>
  IN
  IF ~isObject(value) THEN fail("Expected object", path, <<value>>)
  ELSE
    LET missing == {i \in 1..Len(required) : ~HasOwn(value, required[i])}
        p(i) == validateNode(properties[i][2], Append(path, Key(properties[i][1])),
                             Get(value, properties[i][1]))
        badProps == {i \in 1..Len(properties) :
                       HasOwn(value, properties[i][1]) /\ ~p(i).ok}
        extras == {i \in 1..Len(value.own) :
                     ~InProperties(value.own[i][1], properties)}
        x(i) == validateNode(node.additionalProperties.node,
                             Append(path, Key(value.own[i][1])), value.own[i][2])
        hasAP == "additionalProperties" \in DOMAIN node
    IN IF badProps # {} THEN p(Min(badProps))
       ELSE IF missing # {}
       THEN fail("Missing required property '" \o required[Min(missing)] \o "'",
                 path, Undefined)
       ELSE IF hasAP /\ node.additionalProperties.typeof = "object"
       THEN IF \E i \in extras : ~x(i).ok
            THEN x(Min({i \in extras : ~x(i).ok}))
            ELSE OK
       ELSE IF /\ hasAP /\ node.additionalProperties.typeof = "boolean"
               /\ node.additionalProperties.b = FALSE
               /\ extras # {}
       THEN fail("Unexpected property '" \o value.own[Min(extras)][1] \o "'",
                 path, Undefined)
       ELSE OK

(* mutant: a missing required name is reported at the path of the name *)
validateObjectNode_KeyPath(node, path, value) ==
  LET properties == IF "properties" \in DOMAIN node THEN node.properties ELSE <<>>
      required == IF "required" \in DOMAIN node THEN node.required ELSE <<>>
  IN
  IF ~isObject(value) THEN fail("Expected object", path, <<value>>)
  ELSE
    LET missing == {i \in 1..Len(required) : ~HasOwn(value, required[i])}
        (* the loop over Object.entries(properties) *)
        p(i) == validateNode(properties[i][2], Append(path, Key(properties[i][1])),
                             Get(value, properties[i][1]))
        badProps == {i \in 1..Len(properties) :
                       HasOwn(value, properties[i][1]) /\ ~p(i).ok}
        (* the loops over Object.entries(data) / Object.keys(data) *)
        extras == {i \in 1..Len(value.own) :
                     ~InProperties(value.own[i][1], properties)}
        x(i) == validateNode(node.additionalProperties.node,
                             Append(path, Key(value.own[i][1])), value.own[i][2])
        hasAP == "additionalProperties" \in DOMAIN node
    IN IF missing # {}
       THEN fail("Missing required property '" \o required[Min(missing)] \o "'",
                 Append(path, Key(required[Min(missing)])), Undefined)
       ELSE IF badProps # {} THEN p(Min(badProps))
       ELSE IF hasAP /\ node.additionalProperties.typeof = "object"
       THEN IF \E i \in extras : ~x(i).ok
            THEN x(Min({i \in extras : ~x(i).ok}))
            ELSE OK
       ELSE IF /\ hasAP /\ node.additionalProperties.typeof = "boolean"
               /\ node.additionalProperties.b = FALSE
               /\ extras # {}
       THEN fail("Unexpected property '" \o value.own[Min(extras)][1] \o "'",
                 path, Undefined)
       ELSE OK

validateObjectNode(node, path, value) ==
  LET properties == IF "properties" \in DOMAIN node THEN node.properties ELSE <<>>
      required == IF "required" \in DOMAIN node THEN node.required ELSE <<>>
  IN
  IF ~isObject(value) THEN fail("Expected object", path, <<value>>)
  ELSE
    LET missing == {i \in 1..Len(required) : ~HasOwn(value, required[i])}
        (* the loop over Object.entries(properties) *)
        p(i) == validateNode(properties[i][2], Append(path, Key(properties[i][1])),
                             Get(value, properties[i][1]))
        badProps == {i \in 1..Len(properties) :
                       HasOwn(value, properties[i][1]) /\ ~p(i).ok}
        (* the loops over Object.entries(data) / Object.keys(data) *)
        extras == {i \in 1..Len(value.own) :
                     ~InProperties(value.own[i][1], properties)}
        x(i) == validateNode(node.additionalProperties.node,
                             Append(path, Key(value.own[i][1])), value.own[i][2])
        hasAP == "additionalProperties" \in DOMAIN node
    IN IF missing # {}
       THEN fail("Missing required property '" \o required[Min(missing)] \o "'",
                 path, Undefined)
       ELSE IF badProps # {} THEN p(Min(badProps))
       ELSE IF hasAP /\ node.additionalProperties.typeof = "object"
       THEN IF \E i \in extras : ~x(i).ok
            THEN x(Min({i \in extras : ~x(i).ok}))
            ELSE OK
       ELSE IF /\ hasAP /\ node.additionalProperties.typeof = "boolean"
               /\ node.additionalProperties.b = FALSE
               /\ extras # {}
       THEN fail("Unexpected property '" \o value.own[Min(extras)][1] \o "'",
                 path, Undefined)
       ELSE OK

(* mutant: the facets a node declares, not the kind of the data, choose the checks *)
validateNode_DispatchOnFacets(node, path, value) ==
  LET typeSet == TypeSetOrder(TypeList(node))
      has(kind) == \E i \in 1..Len(typeSet) : typeSet[i] = kind
      dk == getDataKind(value)
      isInteger == dk = "number" /\ has("integer") /\ NumberIsInteger(value)
      expected == Join(typeSet, " or ")
      declares(facets) == DOMAIN node \cap facets # {}
  IN IF ~has(dk) /\ ~isInteger
     THEN fail("Expected " \o expected \o " but got " \o dk, path, <<value>>)
     ELSE IF isConstMismatch(node, value)
     THEN fail("Value must equal "
               \o (IF node.const.typeof = "string"
                   THEN "'" \o Template(node.const) \o "'"
                   ELSE Template(node.const)),
               path, <<value>>)
     ELSE IF isEnumMismatch(node, value)
     THEN fail("Value not in enum", path, <<value>>)
     ELSE IF declares({"properties", "required", "additionalProperties"})
     THEN validateObjectNode(node, path, value)
     ELSE IF declares({"items", "minItems", "maxItems"})
     THEN validateArrayNode(node, path, value)
     ELSE IF declares({"minLength", "maxLength", "pattern", "format", "not"})
     THEN validateStringNode(node, path, value)
     ELSE IF declares({"minimum", "maximum", "exclusiveMinimum", "exclusiveMaximum"})
     THEN validateNumberNode(node, path, value)
     ELSE CASE dk = "object" -> validateObjectNode(node, path, value)
            [] dk = "array" -> validateArrayNode(node, path, value)
            [] dk = "string" -> validateStringNode(node, path, value)
            [] dk = "number" -> validateNumberNode(node, path, value)
            [] dk = "boolean" -> validateBooleanNode(node, path, value)
            [] OTHER -> OK

validateNode(node, path, value) ==
  LET typeSet == TypeSetOrder(TypeList(node))
      has(kind) == \E i \in 1..Len(typeSet) : typeSet[i] = kind
      dk == getDataKind(value)
      isInteger == dk = "number" /\ has("integer") /\ NumberIsInteger(value)
      expected == Join(typeSet, " or ")
  IN IF ~has(dk) /\ ~isInteger
     THEN fail("Expected " \o expected \o " but got " \o dk, path, <<value>>)
     ELSE IF isConstMismatch(node, value)
     THEN fail("Value must equal "
               \o (IF node.const.typeof = "string"
                   THEN "'" \o Template(node.const) \o "'"
                   ELSE Template(node.const)),
               path, <<value>>)
     ELSE IF isEnumMismatch(node, value)
     THEN fail("Value not in enum", path, <<value>>)
     ELSE CASE dk = "object" -> validateObjectNode(node, path, value)
            [] dk = "array" -> validateArrayNode(node, path, value)
            [] dk = "string" -> validateStringNode(node, path, value)
            [] dk = "number" -> validateNumberNode(node, path, value)
            [] dk = "boolean" -> validateBooleanNode(node, path, value)
            [] OTHER -> OK

(* validator(schema)(data) *)
validator(node, value) == validateNode(node, <<>>, value)

----------------------------------------------------------------------------
(* The program: a validator compiled from one schema, called on data any  *)
(* number of times.  `called` tells whether `result` is that of a call,   *)
(* as the call returned it.  `okObject` is the content of the module's    *)
(* one OK object, which every successful validate function returns;       *)
(* `holds` tells which object the caller got back, the module's OK object *)
(* ("OK") or an object of its own ("fresh"), "none" before any call;      *)
(* `mutated` tells whether the caller ever wrote to an object it got.     *)

(* mutant: the validator returns the object the validate function gave it *)
Spread_Alias(ref) == ref

(* { ...object }: a new object with the properties of the given one *)
Spread(ref) == "fresh"

Call(d) ==
  LET r == validator(schema, d)
  IN /\ data' = d
     /\ result' = IF r = OK THEN okObject ELSE r
     /\ holds' = Spread(IF r = OK THEN "OK" ELSE "fresh")
     /\ called' = TRUE
     /\ UNCHANGED <<schema, okObject, mutated>>

(* what a caller may write into a result object *)
Tampered(r) ==
  {[r EXCEPT !.ok = ~@],
   [x \in DOMAIN r \cup {"message"} |-> IF x = "message" THEN "changed" ELSE r[x]]}

(* the caller writes into the object it got back *)
Mutate ==
  /\ holds # "none"
  /\ \E r \in Tampered(result) \ {result} :
       /\ result' = r
       /\ okObject' = IF holds = "OK" THEN r ELSE okObject
  /\ called' = FALSE
  /\ mutated' = TRUE
  /\ UNCHANGED <<schema, data, holds>>

(* validator(s): the caller turns to the validator of another schema *)
Compile(s) ==
  /\ schema' = s
  /\ called' = FALSE
  /\ UNCHANGED <<data, result, okObject, holds, mutated>>

Compiled(schemas) ==
  /\ schema \in schemas
  /\ data = Null
  /\ result = OK
  /\ called = FALSE
  /\ okObject = OK
  /\ holds = "none"
  /\ mutated = FALSE

(* schema notation *)
T(kind) == [isArray |-> FALSE, kind |-> kind]

TL(list) == [isArray |-> TRUE, list |-> list]

Unset == <<>>

Words(chars, n) == UNION {[1..k -> chars] : k \in 0..n}

----------------------------------------------------------------------------
(* Strings against the length and pattern facets *)

MaxStrLen == 4

StringChars == {"a", "b", "z"}

StringData == {Str(w) : w \in Words(StringChars, MaxStrLen)}

Patterns ==
  {<<"a", "b">>, <<"^", "a", "b", "$">>, <<"^", "a", "b">>, <<"a", "b", "$">>,
   <<"a", ".", "b">>, <<"z">>}

StringSchemas ==
  {[type |-> T("string")] @@ pat @@ lo @@ hi :
     pat \in {Unset} \cup {[pattern |-> q] : q \in Patterns},
     lo \in {Unset, [minLength |-> 2]},
     hi \in {Unset, [maxLength |-> 3]}}

InitString == Compiled(StringSchemas)

CallString == \E d \in StringData : Call(d)

NextString == CallString

SpecString == InitString /\ [][NextString]_vars

(* the entire string s matches the regular expression of source p *)
EntireMatch(p, s) == (Len(s) + 1) \in Ends(NewRegExp(p), s, 1)

WithinLength(node, s) ==
  /\ "minLength" \in DOMAIN node => Len(s) >= node.minLength
  /\ "maxLength" \in DOMAIN node => Len(s) <= node.maxLength

(* C3: a string within the length bounds passes the pattern facet iff the *)
(* whole string matches the pattern, whether or not the pattern carries   *)
(* anchors; a failure is the "does not match pattern" failure at the      *)
(* node's path. *)
C3_PatternMatchesWholeString ==
  (called /\ "pattern" \in DOMAIN schema /\ WithinLength(schema, data.chars))
    => /\ result.ok <=> EntireMatch(schema.pattern, data.chars)
       /\ ~result.ok =>
            result = fail("String does not match pattern /"
                          \o Text(schema.pattern) \o "/", <<>>, <<data>>)

----------------------------------------------------------------------------
(* Kinds, const and enum: every type set against data of every kind, at   *)
(* the root and one level down in an array *)

MaxHalf == 4

KindTypes ==
  {T(k) : k \in {"object", "array", "string", "number", "integer", "boolean",
                 "null"}}
  \cup {TL(l) : l \in {<<"string", "null">>, <<"integer", "null">>,
                       <<"integer", "number">>, <<"null", "string", "null">>,
                       <<"object", "array", "boolean">>, <<"integer">>}}

KindConsts == {Str(<<"h", "i">>), IntNum(1), Num(1), Bool(TRUE), Null}

KindEnums ==
  {<<>>, <<Str(<<"h", "i">>), IntNum(1), Null>>, <<Bool(FALSE), Num(1), IntNum(0)>>}

(* facets that reject most data of their kind *)
KindFacets ==
  [minLength |-> 3, minimum |-> 3, minItems |-> 2, required |-> <<"id">>]

KindNodes ==
  {[type |-> t] @@ c @@ e @@ f :
     t \in KindTypes,
     c \in {Unset} \cup {[const |-> v] : v \in KindConsts},
     e \in {Unset} \cup {[enum |-> l] : l \in KindEnums},
     f \in {Unset, KindFacets}}

KindSchemas ==
  KindNodes
  \cup {[type |-> T("array"), items |-> [type |-> t] @@ c] :
          t \in KindTypes, c \in {Unset, [const |-> IntNum(1)]}}

KindPrimitives ==
  {Null, Bool(TRUE), Bool(FALSE), Str(<<>>), Str(<<"h", "i">>),
   Str(<<"h", "e", "y">>), NaN}
  \cup {Num(h) : h \in -1..MaxHalf}

KindElements == {Null, IntNum(1), Num(1), Str(<<"h", "i">>)}

KindData ==
  KindPrimitives
  \cup {Obj(<<>>, ObjectPrototype), Obj(<< <<"id", IntNum(1)>> >>, ObjectPrototype)}
  \cup {Arr(a) : a \in UNION {[1..n -> KindElements] : n \in 0..2}}

InitKind == Compiled(KindSchemas)

CallKind == \E d \in KindData : Call(d)

NextKind == CallKind

SpecKind == InitKind /\ [][NextKind]_vars

(* the resolved kind of a value, read off its shape *)
KindOf(v) ==
  IF v = Null THEN "null"
  ELSE IF "elems" \in DOMAIN v THEN "array"
  ELSE IF "own" \in DOMAIN v THEN "object"
  ELSE v.typeof

PermittedKinds(node) ==
  IF node.type.isArray
  THEN {node.type.list[i] : i \in 1..Len(node.type.list)}
  ELSE {node.type.kind}

Integral(v) == KindOf(v) = "number" /\ v.fin /\ v.h % 2 = 0

KindPasses(node, v) ==
  \/ KindOf(v) \in PermittedKinds(node)
  \/ Integral(v) /\ "integer" \in PermittedKinds(node)

RECURSIVE Distinct(_)
Distinct(list) ==
  IF list = <<>> THEN <<>>
  ELSE LET front == Distinct(SubSeq(list, 1, Len(list) - 1))
           last == list[Len(list)]
       IN IF \E i \in 1..Len(front) : front[i] = last THEN front
          ELSE Append(front, last)

KindFailure(node, path, v) ==
  fail("Expected "
       \o Join(Distinct(IF node.type.isArray THEN node.type.list
                        ELSE <<node.type.kind>>), " or ")
       \o " but got " \o KindOf(v), path, <<v>>)

(* the elements of an array that precede its first kind mismatch all pass *)
FirstKindMismatch(node, elems, i) ==
  /\ i \in 1..Len(elems)
  /\ ~KindPasses(node, elems[i])
  /\ \A j \in 1..(i - 1) : validator(node, elems[j]).ok

Without(node, field) == [f \in DOMAIN node \ {field} |-> node[f]]

Literal(v) ==
  IF KindOf(v) = "string" THEN "'" \o Template(v) \o "'" ELSE Template(v)

(* C8: with const present and the kind check passed, data equal to the    *)
(* const goes on to the remaining checks of the node, and any other data  *)
(* fails at the node's path with "Value must equal <literal>", before any *)
(* facet is looked at; null is not exempt. *)
C8_Const ==
  (called /\ "const" \in DOMAIN schema /\ KindPasses(schema, data))
    => IF data = schema.const
       THEN result = validator(Without(schema, "const"), data)
       ELSE result = fail("Value must equal " \o Literal(schema.const), <<>>,
                          <<data>>)

(* {type:['string','null'], const:'hi'} rejects null *)
C8_Witness ==
  /\ called
  /\ schema.type = TL(<<"string", "null">>)
  /\ "const" \in DOMAIN schema /\ schema.const = Str(<<"h", "i">>)
  /\ data = Null
  /\ ~result.ok /\ result.message = "Value must equal 'hi'"

(* C9: with enum present, the kind check passed and the const check (if   *)
(* any) passed, object and array data fail, primitive data fails iff it   *)
(* equals no member of the list, null included; the failure is "Value not *)
(* in enum" at the node's path and comes before any facet. *)
C9_Enum ==
  (called /\ "enum" \in DOMAIN schema /\ KindPasses(schema, data)
   /\ ("const" \in DOMAIN schema => data = schema.const))
    => IF \/ KindOf(data) \in {"object", "array"}
          \/ \A i \in 1..Len(schema.enum) : schema.enum[i] # data
       THEN result = fail("Value not in enum", <<>>, <<data>>)
       ELSE result = validator(Without(Without(schema, "enum"), "const"), data)

(* null under a type set with 'null' and an enum that does not list null *)
C9_Witness ==
  /\ called
  /\ "null" \in PermittedKinds(schema)
  /\ "enum" \in DOMAIN schema /\ schema.enum = <<Bool(FALSE), Num(1), IntNum(0)>>
  /\ data = Null
  /\ result = fail("Value not in enum", <<>>, <<Null>>)

(* object data under an enum *)
C9_WitnessObject ==
  /\ called
  /\ "enum" \in DOMAIN schema /\ KindOf(data) = "object"
  /\ result = fail("Value not in enum", <<>>, <<data>>)

----------------------------------------------------------------------------
(* Objects: required, properties and additionalProperties *)

MaxKeys == 2

IdNode == [type |-> T("integer"), minimum |-> 2]

EmailNode == [type |-> T("string"), minLength |-> 2]

ObjectProperties ==
  {<<>>,
   << <<"id", IdNode>>, <<"email", EmailNode>> >>,
   << <<"email", EmailNode>>, <<"id", IdNode>> >>}

ObjectRequired == {<<"id", "email">>, <<"email", "id">>, <<"tag">>}

ObjectAdditional ==
  {[typeof |-> "boolean", b |-> TRUE], [typeof |-> "boolean", b |-> FALSE],
   [typeof |-> "object", node |-> [type |-> T("string")]]}

ObjectSchemas ==
  {[type |-> T("object")] @@ r @@ p @@ a :
     r \in {Unset} \cup {[required |-> l] : l \in ObjectRequired},
     p \in {Unset} \cup {[properties |-> l] : l \in ObjectProperties},
     a \in {Unset} \cup {[additionalProperties |-> x] : x \in ObjectAdditional}}

ObjectEntries ==
  {<<"id", IntNum(1)>>, <<"id", IntNum(0)>>,
   <<"email", Str(<<"a", "b">>)>>, <<"email", Str(<<"a">>)>>,
   <<"extra", Bool(TRUE)>>, <<"tag", Str(<<"t">>)>>,
   <<"constructor", IntNum(5)>>}

DistinctKeys(entries) ==
  \A i, j \in 1..Len(entries) : entries[i][1] = entries[j][1] => i = j

ObjectOwn ==
  {o \in UNION {[1..n -> ObjectEntries] : n \in 0..MaxKeys} : DistinctKeys(o)}

(* prototypes of objects made by Object.create(proto) *)
ObjectProtos ==
  {<< <<"id", IntNum(1)>> >> \o ObjectPrototype,
   << <<"email", Str(<<"a">>)>>, <<"id", IntNum(0)>> >> \o ObjectPrototype}

ObjectData ==
  {Obj(o, ObjectPrototype) : o \in ObjectOwn}
  \cup {Obj(o, proto) : o \in {w \in ObjectOwn : Len(w) <= 1},
                        proto \in ObjectProtos}

InitObject == Compiled(ObjectSchemas)

CallObject == \E d \in ObjectData : Call(d)

NextObject == CallObject

SpecObject == InitObject /\ [][NextObject]_vars

Declared(node) ==
  IF "properties" \in DOMAIN node THEN node.properties ELSE <<>>

DeclaredNames(node) == {Declared(node)[i][1] : i \in 1..Len(Declared(node))}

RequiredOf(node) == IF "required" \in DOMAIN node THEN node.required ELSE <<>>

OwnNames(v) == {v.own[i][1] : i \in 1..Len(v.own)}

OwnValue(v, name) == v.own[CHOOSE i \in 1..Len(v.own) : v.own[i][1] = name][2]

(* positions in `required` of the names the object lacks *)
MissingRequired(node, v) ==
  {i \in 1..Len(RequiredOf(node)) : RequiredOf(node)[i] \notin OwnNames(v)}

(* positions in `properties` of the present properties whose value fails *)
FailingDeclared(node, v) ==
  {i \in 1..Len(Declared(node)) :
     /\ Declared(node)[i][1] \in OwnNames(v)
     /\ ~validator(Declared(node)[i][2], OwnValue(v, Declared(node)[i][1])).ok}

(* positions in the object's keys of the names `properties` does not declare *)
Undeclared(node, v) ==
  {i \in 1..Len(v.own) : v.own[i][1] \notin DeclaredNames(node)}

(* a result found one step further down *)
Under(step, r) == IF r.ok THEN r ELSE [r EXCEPT !.path = <<step>> \o @]

MissingFailure(node, v) ==
  fail("Missing required property '"
       \o RequiredOf(node)[Min(MissingRequired(node, v))] \o "'", <<>>, Undefined)

AdditionalIs(node, b) ==
  /\ "additionalProperties" \in DOMAIN node
  /\ node.additionalProperties = [typeof |-> "boolean", b |-> b]

AdditionalSchema(node) ==
  /\ "additionalProperties" \in DOMAIN node
  /\ "node" \in DOMAIN node.additionalProperties

(* C4: on an object the required names are checked first, in declared     *)
(* order, then the declared properties the object has, in declaration     *)
(* order, and only then additionalProperties: a missing required name is  *)
(* what is reported even when a present property is invalid or an         *)
(* undeclared key is there, and an invalid declared property is reported  *)
(* before any additionalProperties failure. *)
C4_ObjectCheckOrder ==
  (called /\ KindOf(data) = "object") =>
    IF MissingRequired(schema, data) # {}
    THEN result = MissingFailure(schema, data)
    ELSE IF FailingDeclared(schema, data) # {}
    THEN LET entry == Declared(schema)[Min(FailingDeclared(schema, data))]
         IN result = Under(Key(entry[1]),
                           validator(entry[2], OwnValue(data, entry[1])))
    ELSE \/ result.ok
         \/ /\ AdditionalIs(schema, FALSE)
            /\ \E i \in Undeclared(schema, data) :
                 result = fail("Unexpected property '" \o data.own[i][1] \o "'",
                               <<>>, Undefined)
         \/ /\ AdditionalSchema(schema)
            /\ Len(result.path) > 0
            /\ \E i \in Undeclared(schema, data) :
                 result.path[1] = Key(data.own[i][1])

(* {id: 0, extra: true} under required [id, email], properties and        *)
(* additionalProperties:false: the missing 'email' is what is reported *)
C4_Witness ==
  /\ called
  /\ AdditionalIs(schema, FALSE)
  /\ MissingRequired(schema, data) # {}
  /\ FailingDeclared(schema, data) # {}
  /\ Undeclared(schema, data) # {}
  /\ result = fail("Missing required property 'email'", <<>>, Undefined)

(* C5: under additionalProperties:false an object that passed the         *)
(* required and declared-property checks fails iff it has an own key that *)
(* `properties` does not declare, with "Unexpected property '<k>'" for    *)
(* the first such key; with additionalProperties absent or true it        *)
(* passes. *)
C5_ClosedObject ==
  (called /\ KindOf(data) = "object"
   /\ MissingRequired(schema, data) = {} /\ FailingDeclared(schema, data) = {}
   /\ ~AdditionalSchema(schema))
    => IF AdditionalIs(schema, FALSE) /\ Undeclared(schema, data) # {}
       THEN result = fail("Unexpected property '"
                          \o data.own[Min(Undeclared(schema, data))][1] \o "'",
                          <<>>, Undefined)
       ELSE result = OK

(* C6: under an additionalProperties schema S every own key that          *)
(* `properties` does not declare is validated as validator(S) validates   *)
(* its value, the first failure in key order being returned under the     *)
(* key; declared keys are not validated against S. *)
C6_TypedExtras ==
  (called /\ KindOf(data) = "object"
   /\ MissingRequired(schema, data) = {} /\ FailingDeclared(schema, data) = {}
   /\ AdditionalSchema(schema))
    => LET S == schema.additionalProperties.node
           bad == {i \in Undeclared(schema, data) :
                     ~validator(S, data.own[i][2]).ok}
       IN IF bad # {}
          THEN result = Under(Key(data.own[Min(bad)][1]),
                              validator(S, data.own[Min(bad)][2]))
          ELSE result = OK

(* the object without its prototype chain *)
OwnOnly(v) == Obj(v.own, <<>>)

InheritedNames(v) == {v.inherited[i][1] : i \in 1..Len(v.inherited)}

(* C7: only own properties count.  An object that has a required name     *)
(* through inheritance only fails with "Missing required property", and   *)
(* what an object inherits never changes the result: declared properties  *)
(* are validated only when own. *)
C7_OwnPropertiesOnly ==
  (called /\ KindOf(data) = "object") =>
    /\ MissingRequired(schema, data) # {} => result = MissingFailure(schema, data)
    /\ result = validator(schema, OwnOnly(data))

(* required 'id' that the object only inherits *)
C7_Witness ==
  /\ called
  /\ "required" \in DOMAIN schema /\ schema.required[1] = "id"
  /\ "id" \in InheritedNames(data) \ OwnNames(data)
  /\ result = fail("Missing required property 'id'", <<>>, Undefined)

----------------------------------------------------------------------------
(* Arrays: minItems, maxItems and items *)

MaxElems == 3

ArrayItems ==
  {[type |-> T("integer")],
   [type |-> TL(<<"string", "null">>), minLength |-> 1],
   [type |-> T("number"), minimum |-> 2]}

ArraySchemas ==
  {[type |-> T("array")] @@ lo @@ hi @@ it :
     lo \in {Unset, [minItems |-> 1], [minItems |-> 3]},
     hi \in {Unset, [maxItems |-> 2]},
     it \in {Unset} \cup {[items |-> n] : n \in ArrayItems}}

ArrayElements == {IntNum(1), Num(1), Str(<<"2">>), Null}

ArrayData == {Arr(a) : a \in UNION {[1..n -> ArrayElements] : n \in 0..MaxElems}}

InitArray == Compiled(ArraySchemas)

CallArray == \E d \in ArrayData : Call(d)

NextArray == CallArray

SpecArray == InitArray /\ [][NextArray]_vars

(* positions of the elements that the items node rejects *)
FailingElements(node, v) ==
  IF "items" \in DOMAIN node
  THEN {i \in 1..Len(v.elems) : ~validator(node.items, v.elems[i]).ok}
  ELSE {}

(* C10: on an array minItems is checked first, then maxItems, both        *)
(* reported at the array's path with the length received, and only then   *)
(* the elements in ascending order, the failure of the lowest failing     *)
(* index being returned under that index; without items every element is  *)
(* accepted. *)
C10_ArrayCheckOrder ==
  (called /\ KindOf(data) = "array") =>
    LET n == Len(data.elems)
        bad == FailingElements(schema, data)
    IN IF "minItems" \in DOMAIN schema /\ n < schema.minItems
       THEN result = fail("Expected at least " \o ToString(schema.minItems)
                          \o " items, got " \o ToString(n), <<>>, <<IntNum(n)>>)
       ELSE IF "maxItems" \in DOMAIN schema /\ n > schema.maxItems
       THEN result = fail("Expected at most " \o ToString(schema.maxItems)
                          \o " items, got " \o ToString(n), <<>>, <<IntNum(n)>>)
       ELSE IF bad # {}
       THEN result = Under(Index(Min(bad) - 1),
                           validator(schema.items, data.elems[Min(bad)]))
       ELSE result = OK

(* three elements, the first of them invalid, against maxItems:2 *)
C10_Witness ==
  /\ called
  /\ KindOf(data) = "array" /\ Len(data.elems) = 3
  /\ 1 \in FailingElements(schema, data)
  /\ ~result.ok /\ result.message = "Expected at most 2 items, got 3"
  /\ result.path = <<>>

(* a later element fails after earlier ones passed *)
C10_WitnessElement ==
  /\ called
  /\ KindOf(data) = "array"
  /\ FailingElements(schema, data) = {2, 3}
  /\ ~result.ok /\ result.path = <<Index(1)>>

----------------------------------------------------------------------------
(* The validator at large: schemas of every family, among them the        *)
(* schemas of the sections above and nested ones, against data of every   *)
(* kind *)

FormatSchemas ==
  {[type |-> TL(<<"string", "null">>)] @@ f @@ nf :
     f \in {Unset, [format |-> "email"], [format |-> "ipv4"],
            [format |-> "totally-made-up"]},
     nf \in {Unset, [not |-> Unset], [not |-> [format |-> "email"]]}}

NumberSchemas ==
  {[type |-> t] @@ lo @@ hi :
     t \in {T("number"), T("integer"), TL(<<"integer", "null">>)},
     lo \in {Unset, [minimum |-> 0], [minimum |-> 0, exclusiveMinimum |-> 1]},
     hi \in {Unset, [maximum |-> 4], [maximum |-> 4, exclusiveMaximum |-> 3]}}

UserNode ==
  [type |-> T("object"), required |-> <<"email">>,
   properties |-> << <<"email", [type |-> T("string"), format |-> "email"]>> >>]

ClosedNode ==
  [type |-> T("object"), properties |-> << <<"id", [type |-> T("integer")]>> >>,
   additionalProperties |-> [typeof |-> "boolean", b |-> FALSE]]

NestedSchemas ==
  {[type |-> T("object"),
    properties |-> << <<"users", [type |-> T("array"), items |-> UserNode]>> >>],
   [type |-> T("object"),
    properties |-> << <<"list", [type |-> T("array"), items |-> ClosedNode]>> >>,
    additionalProperties |-> [typeof |-> "object", node |-> ClosedNode]],
   [type |-> TL(<<"object", "string">>), required |-> <<"id">>,
    properties |-> << <<"id", IdNode>> >>,
    additionalProperties |-> [typeof |-> "boolean", b |-> FALSE],
    minLength |-> 2, pattern |-> <<"o", "k">>]}

Schemas ==
  StringSchemas \cup FormatSchemas \cup NumberSchemas \cup ObjectSchemas
  \cup ArraySchemas \cup NestedSchemas
  \cup {n \in KindSchemas : n.type.isArray /\ "required" \notin DOMAIN n}

OkEmail == Str(<<"o", "k", "@", "x", ".", "i", "o">>)

NestedData ==
  {Obj(<< <<"users", Arr(<<Obj(<< <<"email", OkEmail>> >>, ObjectPrototype),
                           Obj(<<>>, ObjectPrototype)>>)>> >>, ObjectPrototype),
   Obj(<< <<"users", Arr(<<Obj(<< <<"email", Str(<<"n", "o">>)>> >>,
                               ObjectPrototype)>>)>> >>, ObjectPrototype),
   Obj(<< <<"list", Arr(<<Obj(<< <<"id", IntNum(1)>> >>, ObjectPrototype),
                          Obj(<< <<"id", IntNum(2)>>, <<"extra", IntNum(1)>> >>,
                              ObjectPrototype)>>)>>,
          <<"tag", Obj(<< <<"extra", Null>> >>, ObjectPrototype)>> >>,
       ObjectPrototype)}

Data ==
  KindData \cup NestedData
  \cup {OkEmail, Str(<<"o", "k">>), Str(<<"1", ".", "2", ".", "3", ".", "4">>)}
  \cup {NaN}
  \cup {d \in StringData : Len(d.chars) <= 2}
  \cup {d \in ObjectData : Len(d.own) <= 1}
  \cup {d \in ArrayData : Len(d.elems) <= 2}

Init == Compiled(Schemas)

CallAny == \E d \in Data : Call(d)

Next == CallAny

Spec == Init /\ [][Next]_vars

KeyNames ==
  {"id", "email", "extra", "tag", "constructor", "users", "list", "toString"}

WellFormedStep(step) ==
  \/ DOMAIN step = {"key"} /\ step.key \in KeyNames
  \/ DOMAIN step = {"index"} /\ step.index \in Nat

WellFormed(r) ==
  \/ r = [ok |-> TRUE]
  \/ /\ DOMAIN r = {"ok", "path", "message", "received"}
     /\ r.ok = FALSE
     /\ Len(r.message) > 0
     /\ \A i \in 1..Len(r.path) : WellFormedStep(r.path[i])
     /\ Len(r.received) <= 1

(* C1: every call returns either success or one failure that carries a    *)
(* non-empty message and a path of property names and non-negative        *)
(* indices. *)
C1_WellFormedResult == called => WellFormed(result)

(* a failure two levels down: a property name, then an index *)
C1_Witness ==
  /\ called
  /\ ~result.ok
  /\ Len(result.path) = 2
  /\ result.path[1] = Key("users") /\ result.path[2] = Index(1)

----------------------------------------------------------------------------
(* Strings against all five string facets at once *)

MaxOrderLen == 3

OrderChars == {"a", "b", "-"}

OrderData == {Str(w) : w \in Words(OrderChars, MaxOrderLen)}

OrderSchemas ==
  {[type |-> T("string")] @@ lo @@ hi @@ pat @@ fmt @@ neg :
     lo \in {Unset, [minLength |-> 2]},
     hi \in {Unset, [maxLength |-> 2]},
     pat \in {Unset, [pattern |-> <<"a", "b">>], [pattern |-> <<"^", "a">>]},
     fmt \in {Unset, [format |-> "hostname"], [format |-> "totally-made-up"]},
     neg \in {Unset, [not |-> [format |-> "hostname"]]}}

CallOrder == \E d \in OrderData : Call(d)

SpecOrder == Compiled(OrderSchemas) /\ [][CallOrder]_vars

StringFacets == <<"minLength", "maxLength", "pattern", "format", "not">>

(* the node that keeps, beside the type, only the facet named f *)
Single(node, f) == [x \in {"type", f} |-> node[x]]

(* the facets of the node that, each taken alone, reject the value *)
FailingFacets(node, v) ==
  {i \in 1..Len(StringFacets) :
     /\ StringFacets[i] \in DOMAIN node
     /\ ~validator(Single(node, StringFacets[i]), v).ok}

C11_WitnessPattern ==
  /\ called
  /\ data = Str(<<"b", "-">>)
  /\ FailingFacets(schema, data) = {3, 4}
  /\ ~result.ok
  /\ result.message = "String does not match pattern /ab/"

----------------------------------------------------------------------------
(* Numbers against the number kinds and the four bounds *)

MaxBoundHalf == 22

BoundTypes ==
  {T("number"), T("integer"), T("string"),
   TL(<<"integer">>), TL(<<"integer", "null">>), TL(<<"null", "integer">>),
   TL(<<"integer", "number">>), TL(<<"number", "integer">>),
   TL(<<"string", "null">>)}

BoundSchemas ==
  {[type |-> t] @@ lo @@ hi @@ xlo @@ xhi :
     t \in BoundTypes,
     lo \in {Unset, [minimum |-> 2], [minimum |-> 12]},
     hi \in {Unset, [maximum |-> 20], [maximum |-> 6]},
     xlo \in {Unset, [exclusiveMinimum |-> 10]},
     xhi \in {Unset, [exclusiveMaximum |-> 18], [exclusiveMaximum |-> 4]}}

BoundData ==
  {Num(h) : h \in -1..MaxBoundHalf} \cup {NaN, Infinity, NegInfinity}

CallBound == \E d \in BoundData : Call(d)

SpecBound == Compiled(BoundSchemas) /\ [][CallBound]_vars

Bounds == <<"minimum", "maximum", "exclusiveMinimum", "exclusiveMaximum">>

(* the value x (in halves) is outside the bound b of the facet named f *)
Outside(f, x, b) ==
  CASE f = "minimum" -> x < b
    [] f = "maximum" -> x > b
    [] f = "exclusiveMinimum" -> x <= b
    [] f = "exclusiveMaximum" -> x >= b

Relation(f) ==
  CASE f = "minimum" -> ">="
    [] f = "maximum" -> "<="
    [] f = "exclusiveMinimum" -> ">"
    [] f = "exclusiveMaximum" -> "<"

FailingBounds(node, v) ==
  {i \in 1..Len(Bounds) :
     Bounds[i] \in DOMAIN node /\ Outside(Bounds[i], v.h, node[Bounds[i]])}

(* C12: a finite number that passes the kind check of a node, of kind      *)
(* 'number' or 'integer', succeeds iff it is outside none of the node's    *)
(* bounds, and otherwise fails with "Must be <relation> <bound>" of the    *)
(* first bound it is outside of, in the order minimum (x < bound), maximum *)
(* (x > bound), exclusiveMinimum (x <= bound), exclusiveMaximum            *)
(* (x >= bound), carrying the number. *)
C12_NumberBoundOrder ==
  (called /\ KindOf(data) = "number" /\ data.fin /\ KindPasses(schema, data)) =>
    LET failing == FailingBounds(schema, data)
        first == Bounds[Min(failing)]
    IN IF failing = {}
       THEN result = OK
       ELSE result = [ok |-> FALSE, path |-> <<>>,
                      message |-> "Must be " \o Relation(first) \o " "
                                  \o NumText(schema[first]),
                      received |-> <<data>>]

(* minimum 1, exclusiveMinimum 5, maximum 10, exclusiveMaximum 9 on 5 *)
C12_Witness ==
  /\ called
  /\ schema = [type |-> T("number"), minimum |-> 2, exclusiveMinimum |-> 10,
               maximum |-> 20, exclusiveMaximum |-> 18]
  /\ data = IntNum(5)
  /\ ~result.ok
  /\ result.message = "Must be > 5"

(* an integer below minimum and on exclusiveMinimum, under 'integer' *)
C12_WitnessInteger ==
  /\ called
  /\ schema.type = T("integer")
  /\ {1, 3} \subseteq FailingBounds(schema, data)
  /\ ~result.ok
  /\ result.message = "Must be >= 6"

(* C13: on a node that has a type and nothing else, a finite number that *)
(* is not integral is accepted iff the type set has 'number', and        *)
(* 'integer' alone and ['integer','null'] reject it with a message that  *)
(* begins "Expected integer"; when the type set has 'integer' but not    *)
(* 'number', a number is accepted iff it is finite and integral; NaN,    *)
(* Infinity and -Infinity are rejected by every node, whatever its type  *)
(* set and bounds. *)
C13_IntegerAndNumber ==
  (called /\ KindOf(data) = "number") =>
    LET kinds == PermittedKinds(schema)
    IN /\ ~data.fin => ~result.ok
       /\ DOMAIN schema = {"type"} =>
            /\ (data.fin /\ ~Integral(data)) =>
                 /\ result.ok <=> "number" \in kinds
                 /\ schema.type = T("integer") =>
                      result.message = "Expected integer" \o " but got number"
                 /\ schema.type = TL(<<"integer", "null">>) =>
                      result.message = "Expected integer" \o " or null but got number"
            /\ ("integer" \in kinds /\ "number" \notin kinds) =>
                 (result.ok <=> Integral(data))

(* 3.5 under ['integer','number'] *)
C13_Witness ==
  /\ called
  /\ schema = [type |-> TL(<<"integer", "number">>)]
  /\ data = Num(7)
  /\ result = OK

(* 3.5 under ['integer','null'] *)
C13_WitnessRejected ==
  /\ called
  /\ schema = [type |-> TL(<<"integer", "null">>)]
  /\ data = Num(7)
  /\ ~result.ok

(* NaN under 'number' *)
C13_WitnessNaN ==
  /\ called
  /\ schema = [type |-> T("number")]
  /\ data = NaN
  /\ ~result.ok
  /\ result.message = "Expected number"

----------------------------------------------------------------------------
(* Unions of kinds whose nodes carry the facets of several kinds *)

UnionTypes ==
  {T("string"), T("object"), T("number"),
   TL(<<"object", "string">>), TL(<<"string", "number">>),
   TL(<<"array", "null">>), TL(<<"integer", "boolean", "null">>),
   TL(<<"null", "array", "object">>)}

ObjectGroup ==
  [required |-> <<"id">>, properties |-> << <<"id", [type |-> T("integer")]>> >>,
   additionalProperties |-> [typeof |-> "boolean", b |-> FALSE]]

ArrayGroup == [minItems |-> 2, items |-> [type |-> T("string")]]

StringGroup == [minLength |-> 2, pattern |-> <<"o", "k">>, format |-> "hostname"]

NumberGroup == [minimum |-> 4, exclusiveMaximum |-> 8]

UnionSchemas ==
  {[type |-> t] @@ ce @@ o @@ a @@ s @@ n :
     t \in UnionTypes,
     ce \in {Unset, [const |-> Str(<<"o", "k">>)],
             [enum |-> <<Null, IntNum(1), Str(<<"o", "k">>), Bool(TRUE)>>]},
     o \in {Unset, ObjectGroup},
     a \in {Unset, ArrayGroup},
     s \in {Unset, StringGroup},
     n \in {Unset, NumberGroup}}

UnionData ==
  {Null, Bool(TRUE), Bool(FALSE),
   Str(<<>>), Str(<<"o", "k">>), Str(<<"z", "z">>), Str(<<"o", "k", "-">>),
   IntNum(1), IntNum(3), Num(5), IntNum(4),
   Arr(<<>>), Arr(<<Str(<<"a">>), Str(<<"b">>)>>), Arr(<<IntNum(1), IntNum(2)>>),
   Obj(<<>>, ObjectPrototype),
   Obj(<< <<"id", IntNum(1)>> >>, ObjectPrototype),
   Obj(<< <<"id", Str(<<"x">>)>> >>, ObjectPrototype),
   Obj(<< <<"id", IntNum(1)>>, <<"extra", Bool(TRUE)>> >>, ObjectPrototype)}

CallUnion == \E d \in UnionData : Call(d)

SpecUnion == Compiled(UnionSchemas) /\ [][CallUnion]_vars

(* the facets that belong to a kind *)
FacetGroup(kind) ==
  CASE kind = "object" -> {"properties", "required", "additionalProperties"}
    [] kind = "array" -> {"items", "minItems", "maxItems"}
    [] kind = "string" -> {"minLength", "maxLength", "pattern", "format", "not"}
    [] kind = "number" -> {"minimum", "maximum", "exclusiveMinimum",
                           "exclusiveMaximum"}
    [] OTHER -> {}

(* the node without the facets of the kinds other than the given one *)
Relevant(node, kind) ==
  [x \in DOMAIN node \cap ({"type", "const", "enum"} \cup FacetGroup(kind))
     |-> node[x]]

(* C14: the result of a node on data of kind k is the result of the node  *)
(* that keeps only its type, const, enum and the facets of k; so the      *)
(* facets of the other kinds, present or not, never change the result,    *)
(* and on null (and on a boolean) no facet at all takes part. *)
C14_FacetedUnions ==
  called => result = validator(Relevant(schema, KindOf(data)), data)

(* a string under object | string whose object, array and number facets *)
(* would each reject it *)
C14_Witness ==
  /\ called
  /\ schema = [type |-> TL(<<"object", "string">>)] @@ ObjectGroup @@ ArrayGroup
                @@ StringGroup @@ NumberGroup
  /\ data = Str(<<"o", "k">>)
  /\ result = OK

(* null under array | null with the facets of every kind *)
C14_WitnessNull ==
  /\ called
  /\ schema = [type |-> TL(<<"array", "null">>)] @@ ObjectGroup @@ ArrayGroup
                @@ StringGroup @@ NumberGroup
  /\ data = Null
  /\ result = OK

----------------------------------------------------------------------------
(* Where a failure's path leads, in the schema and in the data *)

DeclaredNode(node, name) ==
  Declared(node)[CHOOSE i \in 1..Len(Declared(node)) :
                   Declared(node)[i][1] = name][2]

(* the node and the value that the path leads to: a name leads from an    *)
(* object to its own property of that name and from the node to the       *)
(* schema declared for the name or, failing that, to the schema of        *)
(* additionalProperties; an index leads to the element and to `items` *)
RECURSIVE Reach(_, _, _)
Reach(node, v, path) ==
  IF path = <<>> THEN [found |-> TRUE, node |-> node, value |-> v]
  ELSE LET step == Head(path)
       IN IF "key" \in DOMAIN step
          THEN IF /\ KindOf(v) = "object"
                  /\ step.key \in OwnNames(v)
                  /\ step.key \in DeclaredNames(node) \/ AdditionalSchema(node)
               THEN Reach(IF step.key \in DeclaredNames(node)
                          THEN DeclaredNode(node, step.key)
                          ELSE node.additionalProperties.node,
                          OwnValue(v, step.key), Tail(path))
               ELSE [found |-> FALSE]
          ELSE IF /\ KindOf(v) = "array"
                  /\ "items" \in DOMAIN node
                  /\ step.index \in 0..(Len(v.elems) - 1)
               THEN Reach(node.items, v.elems[step.index + 1], Tail(path))
               ELSE [found |-> FALSE]

(* C15: the path of a failure leads, name by name and index by index from *)
(* the root, to a node and a value on which the same failure arises as a  *)
(* failure of the node itself (path []); so a missing-required or an      *)
(* unexpected-property failure has the path of the object, and no sibling *)
(* appears in a path. *)
C15_PathAccumulation ==
  (called /\ ~result.ok) =>
    LET at == Reach(schema, data, result.path)
    IN /\ at.found
       /\ validator(at.node, at.value) = [result EXCEPT !.path = <<>>]

(* a format failure three steps down, after a sibling that passed *)
C15_Witness ==
  /\ called
  /\ ~result.ok
  /\ result.path = <<Key("users"), Index(0), Key("email")>>
  /\ result.message = "Invalid email format"

(* a missing required name in the second element of an array *)
C15_WitnessMissing ==
  /\ called
  /\ ~result.ok
  /\ result.path = <<Key("users"), Index(1)>>
  /\ result.message = "Missing required property 'email'"

(* an unexpected property in an element, after an element that passed *)
C15_WitnessUnexpected ==
  /\ called
  /\ ~result.ok
  /\ result.path = <<Key("list"), Index(1)>>
  /\ result.message = "Unexpected property 'extra'"

----------------------------------------------------------------------------
(* Strings against one format, required or excluded *)

KnownFormats ==
  {"uuid", "email", "uri", "hostname", "ipv4", "ipv6", "date-time", "date", "time"}

FormatNames == KnownFormats \cup {"totally-made-up", "Email"}

NamedSchemas ==
  {[type |-> T("string")]}
  \cup {[type |-> T("string"), format |-> f] : f \in FormatNames}
  \cup {[type |-> T("string"), not |-> [format |-> f]] : f \in FormatNames}
  \cup {[type |-> T("string"), format |-> f, not |-> [format |-> g]] :
          f \in {"hostname", "totally-made-up"}, g \in {"ipv4", "totally-made-up"}}

NamedData ==
  {Str(<<"1", "2", "3", "e", "4", "5", "6", "7", "-", "e", "8", "9", "b", "-", "1", "2", "d", "3", "-", "a", "4", "5", "6", "-", "4", "2", "6", "6", "1", "4", "1", "7", "4", "0", "0", "0">>),
   Str(<<"a", "@", "b", ".", "c", "o">>),
   Str(<<"n", "o", "t", "-", "a", "n", "-", "e", "m", "a", "i", "l">>),
   Str(<<"h", "t", "t", "p", ":", "/", "/", "x", ".", "i", "o">>),
   Str(<<"h", "t", "t", "p", ":", "/", "/", "/", "x">>),
   Str(<<"m", "a", "i", "l", "t", "o", ":", "a">>),
   Str(<<"a", ".", "b">>),
   Str(<<"-", "a">>),
   Str(<<"1", ".", "2", ".", "3", ".", "4">>),
   Str(<<"2", "5", "6", ".", "0", ".", "0", ".", "1">>),
   Str(<<"1", ":", ":", "2">>),
   Str(<<"1", ":", ":", "2", ":", ":", "3">>),
   Str(<<"2", "0", "2", "0", "-", "0", "1", "-", "0", "2", "T", "0", "3", ":", "0", "4", ":", "0", "5", "Z">>),
   Str(<<"2", "0", "2", "0", "-", "0", "1", "-", "0", "2">>),
   Str(<<"2", "0", "2", "0", "-", "1", "3", "-", "0", "1">>),
   Str(<<"1", "2", ":", "0", "0", ":", "0", "0">>),
   Str(<<"1", "2", ":", "0", "0", ":", "6", "0">>),
   Str(<<"a", "n", "y", "t", "h", "i", "n", "g">>),
   Str(<<>>)}

CallNamed == \E d \in NamedData : Call(d)

SpecNamed == Compiled(NamedSchemas) /\ [][CallNamed]_vars

(* the predicate that goes by the name *)
Predicate(name, s) ==
  CASE name = "uuid" -> isUuid(s)
    [] name = "email" -> isEmail(s)
    [] name = "uri" -> isUri(s)
    [] name = "hostname" -> isHostname(s)
    [] name = "ipv4" -> isIpv4(s)
    [] name = "ipv6" -> isIpv6(s)
    [] name = "date-time" -> isDateTime(s)
    [] name = "date" -> isDate(s)
    [] name = "time" -> isTime(s)

Requires(node) ==
  IF "format" \in DOMAIN node /\ node.format \in KnownFormats
  THEN {node.format} ELSE {}

Excludes(node) ==
  IF "not" \in DOMAIN node /\ node.not.format \in KnownFormats
  THEN {node.not.format} ELSE {}

(* C16: on every string, isFormatValid(name, s, expected) is              *)
(* (predicate of the name on s) = expected for the nine known names and   *)
(* TRUE for any other name, with expected TRUE or FALSE; a string node    *)
(* accepts the string iff its known format holds and its known not.format *)
(* does not, so an unknown name on either side rejects nothing; and of    *)
(* `format: name` and `not: {format: name}`, for a known name, exactly    *)
(* one accepts the string. *)
C16_FormatDispatch ==
  (called /\ data.typeof = "string") =>
    LET s == data.chars
    IN /\ \A name \in FormatNames, expected \in BOOLEAN :
            isFormatValid(name, s, expected)
              = (IF name \in KnownFormats THEN Predicate(name, s) = expected
                 ELSE TRUE)
       /\ result.ok <=> /\ \A f \in Requires(schema) : Predicate(f, s)
                        /\ \A f \in Excludes(schema) : ~Predicate(f, s)
       /\ \A name \in KnownFormats :
            validator([type |-> T("string"), format |-> name], data).ok
              # validator([type |-> T("string"), not |-> [format |-> name]], data).ok

(* an unknown name in not.format rejects nothing *)
C16_Witness ==
  /\ called
  /\ schema = [type |-> T("string"), not |-> [format |-> "totally-made-up"]]
  /\ data = Str(<<"a", "n", "y", "t", "h", "i", "n", "g">>)
  /\ result = OK

(* an email under not: {format: 'email'} *)
C16_WitnessExcluded ==
  /\ called
  /\ schema = [type |-> T("string"), not |-> [format |-> "email"]]
  /\ data = Str(<<"a", "@", "b", ".", "c", "o">>)
  /\ ~result.ok
  /\ result.message = "Must not be email format"

----------------------------------------------------------------------------
(* What a failure carries as `received` *)

Prefix(message, p) == Len(message) >= Len(p) /\ SubSeq(message, 1, Len(p)) = p

(* the failures of the size of an array and of the length of a string *)
SizeFailure(message) ==
  \/ Prefix(message, "Expected at least ")
  \/ Prefix(message, "Expected at most ")
  \/ Prefix(message, "String length ")

(* the failures of a missing required name and of an unexpected property *)
PresenceFailure(message) ==
  \/ Prefix(message, "Missing required property ")
  \/ Prefix(message, "Unexpected property ")

(* the failures of type, const, enum, pattern, format, not.format and of *)
(* the numeric bounds *)
ValueFailure(message) ==
  /\ ~SizeFailure(message)
  /\ \/ Prefix(message, "Expected ")
     \/ Prefix(message, "Value must equal ")
     \/ message = "Value not in enum"
     \/ Prefix(message, "String does not match pattern ")
     \/ Prefix(message, "Invalid ")
     \/ Prefix(message, "Must not be ")
     \/ Prefix(message, "Must be ")

LengthOf(v) == IF KindOf(v) = "array" THEN Len(v.elems) ELSE Len(v.chars)

C17_WitnessString ==
  /\ called
  /\ ~result.ok
  /\ result.path = <<Key("email")>>
  /\ result.message = "String length < 2"
  /\ result.received = <<IntNum(1)>>

(* an unexpected property *)
C17_WitnessNone ==
  /\ called
  /\ ~result.ok
  /\ result.message = "Unexpected property 'extra'"
  /\ result.received = <<>>

(* NaN under 'number' *)
C17_WitnessNaN ==
  /\ called
  /\ ~result.ok
  /\ result.message = "Expected number"
  /\ result.received = <<NaN>>

----------------------------------------------------------------------------
(* The order of the kinds in a type list *)

(* the orderings of a list *)
Orderings(list) ==
  {[i \in 1..Len(list) |-> list[p[i]]] :
     p \in {q \in [1..Len(list) -> 1..Len(list)] :
              \A i, j \in 1..Len(list) : q[i] = q[j] => i = j}}

WithType(node, t) == [node EXCEPT !.type = t]

WithItemsType(node, t) == [node EXCEPT !.items = WithType(@, t)]

(* the two messages that enumerate the kinds of a node *)
KindMessage(node, v) == KindFailure(node, <<>>, v).message

NumberMessage(node) ==
  "Expected " \o Join(IF node.type.isArray THEN node.type.list
                      ELSE <<node.type.kind>>, ",")

(* two results of the same outcome: both successes, or failures of the   *)
(* same check with the same path and received value, n1 and n2 being the *)
(* nodes, equal up to the order of their kinds, at which they arose *)
SameOutcome(r1, n1, r2, n2) ==
  /\ r1.ok = r2.ok
  /\ ~r1.ok =>
       /\ r1.path = r2.path
       /\ r1.received = r2.received
       /\ \/ r1.message = r2.message
          \/ /\ r1.received # <<>>
             /\ \/ /\ r1.message = KindMessage(n1, r1.received[1])
                   /\ r2.message = KindMessage(n2, r2.received[1])
                \/ /\ r1.message = NumberMessage(n1)
                   /\ r2.message = NumberMessage(n2)

(* C18: the result of a node whose type is a list, and the result of an   *)
(* array node whose items node's type is a list, is of the same outcome   *)
(* under every ordering of the list: both succeed, or both fail the same  *)
(* check at the same path with the same received value, the messages      *)
(* differing at most in the order of the kinds of a type mismatch; and a  *)
(* list of one kind gives exactly the result of the bare kind. *)
C18_KindOrder ==
  called =>
    /\ schema.type.isArray =>
         /\ \A l \in Orderings(schema.type.list) :
              SameOutcome(result, schema,
                          validator(WithType(schema, TL(l)), data),
                          WithType(schema, TL(l)))
         /\ Len(schema.type.list) = 1 =>
              result = validator(WithType(schema, T(schema.type.list[1])), data)
    /\ ~schema.type.isArray =>
         result = validator(WithType(schema, TL(<<schema.type.kind>>)), data)
    /\ ("items" \in DOMAIN schema /\ schema.items.type.isArray) =>
         /\ \A l \in Orderings(schema.items.type.list) :
              SameOutcome(result, schema.items,
                          validator(WithItemsType(schema, TL(l)), data),
                          WithType(schema.items, TL(l)))
         /\ Len(schema.items.type.list) = 1 =>
              result = validator(WithItemsType(schema, T(schema.items.type.list[1])),
                                 data)

(* 3.5 under ['integer','number'], as under ['number','integer'] *)
C18_Witness ==
  /\ called
  /\ schema = [type |-> TL(<<"integer", "number">>)]
  /\ data = Num(3)
  /\ result = OK
  /\ validator([type |-> TL(<<"number", "integer">>)], data) = OK

(* a mismatch whose message names the kinds in the order of the list *)
C18_WitnessMessage ==
  /\ called
  /\ schema = [type |-> TL(<<"object", "array", "boolean">>)]
  /\ data = Null
  /\ result.message = "Expected object or array or boolean but got null"
  /\ validator([type |-> TL(<<"boolean", "array", "object">>)], data).message
       = "Expected boolean or array or object but got null"

(* NaN under ['integer','number'] *)
C18_WitnessNaN ==
  /\ called
  /\ schema = [type |-> TL(<<"integer", "number">>)]
  /\ data = NaN
  /\ result.message = "Expected integer,number"

----------------------------------------------------------------------------
(* Several validators, called again and again by a caller that writes *)
(* into the results *)

RepeatSchemas ==
  {[type |-> T("string"), minLength |-> 2],
   [type |-> TL(<<"integer", "null">>), minimum |-> 2],
   [type |-> T("array"), items |-> [type |-> T("integer")]],
   [type |-> T("object"), required |-> <<"id">>,
    properties |-> << <<"id", [type |-> T("integer")]>> >>]}

RepeatData ==
  {Null, Str(<<"a">>), Str(<<"a", "b">>), IntNum(0), IntNum(1),
   Arr(<<IntNum(1), Num(1)>>), Arr(<<IntNum(1)>>),
   Obj(<<>>, ObjectPrototype), Obj(<< <<"id", IntNum(1)>> >>, ObjectPrototype)}

InitRepeat == Compiled(RepeatSchemas)

CallRepeat == \E d \in RepeatData : Call(d)

CompileRepeat == \E s \in RepeatSchemas : Compile(s)

NextRepeat == CallRepeat \/ Mutate \/ CompileRepeat

SpecRepeat == InitRepeat /\ [][NextRepeat]_vars

(* C19: whatever calls of this and of other validators came before, and  *)
(* whatever the caller wrote into the results it got, the result a call  *)
(* returns is the one that the schema and the data determine. *)
C19_ResultOfInputsOnly == called => result = validator(schema, data)

(* a success returned after the caller wrote into an earlier result *)
C19_Witness ==
  /\ called
  /\ mutated
  /\ result = OK
  /\ holds = "fresh"

----------------------------------------------------------------------------
(* Strings against the ipv6 format *)

MaxGroups == 8

GroupPool ==
  << <<"1">>, <<"d", "b", "8">>, <<"8", "5", "A", "3">>, <<"0">>, <<"f", "f">>,
     <<"8", "a", "2", "e">>, <<"3", "7", "0">>, <<"7", "3", "3", "4">>, <<"c">>,
     <<"9">> >>

(* groups number from..to of the pool, joined by colons *)
RECURSIVE Groups(_, _)
Groups(from, to) ==
  IF from > to THEN <<>>
  ELSE IF from = to THEN GroupPool[from]
  ELSE GroupPool[from] \o <<":">> \o Groups(from + 1, to)

Ipv6Shaped ==
  UNION {{Groups(1, a) \o mid \o Groups(a + 1, a + b) \o zone :
            b \in 0..(MaxGroups + 1 - a),
            mid \in {<<":">>, <<":", ":">>},
            zone \in {<<>>, <<"%", "e", "0">>}} : a \in 0..MaxGroups}

Ipv6Data ==
  {Str(w) : w \in Ipv6Shaped}
  \cup
  {Str(<<"1", ":", ":", "2", ":", ":", "3">>),
   Str(<<"2", "0", "0", "1", ":", ":", "8", "5", "a", "3", ":", ":", "8", "a", "2", "e", ":", "3", "7", "0", ":", "7", "3", "3", "4">>),
   Str(<<"1", "2", "3", "4", "5", ":", ":">>),
   Str(<<"1", ":", ":", ":", "2">>),
   Str(<<"1", ":", "2">>),
   Str(<<":", ":", "1", "2", "3", "4", "5">>),
   Str(<<"g", ":", ":", "1">>),
   Str(<<"1", ":", ":", "g">>),
   Str(<<>>),
   Str(<<":">>),
   Str(<<"%", "e">>),
   Str(<<"1", ":", ":", "2", "%">>),
   Str(<<":", ":", "1", "%", "e", "0">>),
   Str(<<"1", ":", "2", ":", "3", ":", "4", ":", "5", ":", "6", ":", "7", ":", "1", "2", "3", "4", "5">>),
   Str(<<"2", "0", "0", "1", ":", "d", "b", "8", ":", "8", "5", "a", "3", ":", "0", ":", "0", ":", "8", "a", "2", "e", ":", "3", "7", "0", ":", "7", "3", "3", "4">>),
   Str(<<"2", "0", "0", "1", ":", "d", "b", "8", ":", ":", "8", "a", "2", "e", ":", "3", "7", "0", ":", "7", "3", "3", "4">>),
   Str(<<"1", ":", ":", "2", "%", "%">>)}

Ipv6Schemas ==
  {[type |-> T("string"), format |-> "ipv6"],
   [type |-> T("string"), not |-> [format |-> "ipv6"]],
   [type |-> TL(<<"string", "null">>), format |-> "ipv6", minLength |-> 3]}

CallIpv6 == \E d \in Ipv6Data : Call(d)

SpecIpv6 == Compiled(Ipv6Schemas) /\ [][CallIpv6]_vars

(* one to four hex digits *)
HexGroup(s) == Len(s) \in 1..4 /\ \A i \in 1..Len(s) : s[i] \in HexDigit

(* how many groups a colon-separated list of groups has, -1 if it is not *)
(* one; the empty string is the list of no group *)
GroupCount(s) ==
  IF s = <<>> THEN 0
  ELSE LET parts == Split(s, ":")
       IN IF \A i \in 1..Len(parts) : HexGroup(parts[i]) THEN Len(parts) ELSE -1

(* the address forms: eight groups, or one '::' between two lists of *)
(* groups that have fewer than eight groups together *)
Ipv6Address(s) ==
  LET doubles == {i \in 1..(Len(s) - 1) : s[i] = ":" /\ s[i + 1] = ":"}
      at == CHOOSE i \in doubles : TRUE
      left == GroupCount(SubSeq(s, 1, at - 1))
      right == GroupCount(SubSeq(s, at + 2, Len(s)))
  IN IF doubles = {} THEN GroupCount(s) = 8
     ELSE /\ Cardinality(doubles) = 1
          /\ left >= 0 /\ right >= 0
          /\ left + right < 8

(* an address, optionally followed by '%' and a zone id *)
Ipv6Form(s) ==
  LET percents == {i \in 1..Len(s) : s[i] = "%"}
  IN IF percents = {} THEN Ipv6Address(s)
     ELSE /\ Min(percents) < Len(s)
          /\ Ipv6Address(SubSeq(s, 1, Min(percents) - 1))

(* C20: a string is accepted under format 'ipv6', and rejected under      *)
(* not.format 'ipv6', exactly when it is eight colon-separated groups of  *)
(* one to four hex digits, or has exactly one '::' in place of one or     *)
(* more groups, fewer than eight groups being written out (the forms that *)
(* begin or end with '::' and the address '::' included), in either case  *)
(* optionally followed by '%' and a zone id. *)
C20_Ipv6Forms ==
  (called /\ data.typeof = "string") =>
    /\ isIpv6(data.chars) <=> Ipv6Form(data.chars)
    /\ DOMAIN schema = {"type", "format"} => (result.ok <=> Ipv6Form(data.chars))
    /\ DOMAIN schema = {"type", "not"} => (result.ok <=> ~Ipv6Form(data.chars))

----------------------------------------------------------------------------
(* Numeric facets whose value is 0 *)

MaxZeroLen == 2

ZeroFacets ==
  [array |-> {"minItems", "maxItems"},
   string |-> {"minLength", "maxLength"},
   number |-> {"minimum", "maximum", "exclusiveMinimum", "exclusiveMaximum"}]

(* nodes of one kind with no facet, one facet or two facets, each facet *)
(* 0 or 2 (2 is the number 1 for the bounds of numbers, which are in    *)
(* halves) *)
ZeroSchemas ==
  UNION {{[type |-> T(k)]}
         \cup {[x \in {"type", f} |-> IF x = "type" THEN T(k) ELSE b] :
                 f \in ZeroFacets[k], b \in {0, 2}}
         \cup {[x \in {"type", f, g} |->
                  IF x = "type" THEN T(k) ELSE IF x = f THEN 0 ELSE b] :
                 f \in ZeroFacets[k], g \in ZeroFacets[k], b \in {0, 2}}
         : k \in {"array", "string", "number"}}

ZeroData ==
  {Arr(a) : a \in Words({Null}, MaxZeroLen)}
  \cup {Str(w) : w \in Words({"a"}, MaxZeroLen)}
  \cup {Num(h) : h \in (0 - MaxZeroLen - 1)..(MaxZeroLen + 1)}

SpecZero == Compiled(ZeroSchemas) /\ [][\E d \in ZeroData : Call(d)]_vars

(* the value is outside the bound b of the facet named f *)
Violates(f, b, v) ==
  CASE f = "minItems" -> Len(v.elems) < b
    [] f = "maxItems" -> Len(v.elems) > b
    [] f = "minLength" -> Len(v.chars) < b
    [] f = "maxLength" -> Len(v.chars) > b
    [] f \in ZeroFacets.number -> Outside(f, v.h, b)

(* the node has the facet f with value 0 and no other facet *)
OnlyZero(node, f) == DOMAIN node = {"type", f} /\ node[f] = 0

(* some data gets from the node another result than from the node *)
(* without the facet f *)
Differs(node, f) ==
  \E d \in ZeroData : validator(node, d) # validator(Without(node, f), d)

AllZeroFacets == ZeroFacets.array \cup ZeroFacets.string \cup ZeroFacets.number

(* C21 as stated: data of the node's kind is accepted iff it is outside   *)
(* none of the node's bounds, a bound of 0 included, and a node whose one *)
(* facet is 0, whichever of the eight facets it is, gives on some data    *)
(* another result than the node without the facet. *)
C21_ZeroFacetDiffers ==
  (called /\ KindPasses(schema, data)) =>
    /\ result.ok <=> \A f \in DOMAIN schema \ {"type"} : ~Violates(f, schema[f], data)
    /\ \A f \in AllZeroFacets : OnlyZero(schema, f) => Differs(schema, f)

(* C21 amended: data of the node's kind is accepted iff it is outside     *)
(* none of the node's bounds, a bound of 0 included; a node whose one     *)
(* facet is maxItems, maxLength, minimum, maximum, exclusiveMinimum or    *)
(* exclusiveMaximum of 0 gives on some data another result than the node  *)
(* without the facet, while minItems: 0 and minLength: 0, which no array  *)
(* and no string is below, give on all data the result of the node        *)
(* without them. *)
C21_ZeroFacetEnforced ==
  (called /\ KindPasses(schema, data)) =>
    /\ result.ok <=> \A f \in DOMAIN schema \ {"type"} : ~Violates(f, schema[f], data)
    /\ \A f \in AllZeroFacets \ {"minItems", "minLength"} :
         OnlyZero(schema, f) => Differs(schema, f)
    /\ \A f \in {"minItems", "minLength"} :
         OnlyZero(schema, f) => ~Differs(schema, f)

(* exclusiveMinimum: 0 rejects 0 *)
C21_Witness ==
  /\ called
  /\ schema = [type |-> T("number"), exclusiveMinimum |-> 0]
  /\ data = IntNum(0)
  /\ ~result.ok
  /\ result.message = "Must be > 0"

(* maxItems: 0 rejects an array of one element *)
C21_WitnessArray ==
  /\ called
  /\ schema = [type |-> T("array"), maxItems |-> 0]
  /\ data = Arr(<<Null>>)
  /\ ~result.ok
  /\ result.received = <<IntNum(1)>>

(* minLength: 0 accepts the empty string, as no minLength does *)
C21_WitnessMinLength ==
  /\ called
  /\ schema = [type |-> T("string"), minLength |-> 0]
  /\ data = Str(<<>>)
  /\ result = OK

----------------------------------------------------------------------------
(* Widening the type set of a node *)

AllKinds == {"object", "array", "string", "number", "integer", "boolean", "null"}

(* the types whose set of kinds is that of t with one kind more, the new *)
(* kind put last or first, and the bare kind for a list of one kind *)
Widenings(t) ==
  LET list == IF t.isArray THEN t.list ELSE <<t.kind>>
  IN {TL(list \o <<k>>) : k \in AllKinds} \cup {TL(<<k>> \o list) : k \in AllKinds}
     \cup (IF Len(list) = 1 THEN {T(list[1])} ELSE {})

(* C23: when a call succeeds, it also succeeds with the type set of the  *)
(* node, or of the items node of an array node, widened by any kind. *)
C23_WideningKeepsAcceptance ==
  (called /\ result.ok) =>
    /\ \A t \in Widenings(schema.type) : validator(WithType(schema, t), data).ok
    /\ "items" \in DOMAIN schema =>
         \A t \in Widenings(schema.items.type) :
           validator(WithItemsType(schema, t), data).ok

(* 1.5 under 'number', and under ['number','integer'] and ['integer','number'] *)
C23_Witness ==
  /\ called
  /\ schema = [type |-> T("number")]
  /\ data = Num(3)
  /\ result = OK
  /\ validator([type |-> TL(<<"number", "integer">>)], data) = OK
  /\ validator([type |-> TL(<<"integer", "number">>)], data) = OK

(* an array of integers under items 'integer', and under items ['integer','null'] *)
C23_WitnessItems ==
  /\ called
  /\ schema = [type |-> T("array"), items |-> [type |-> T("integer")]]
  /\ data = Arr(<<IntNum(1), IntNum(1)>>)
  /\ result = OK

----------------------------------------------------------------------------
(* A failure's path followed in the data alone *)

(* data that JSON.parse can yield: finite numbers, and objects that *)
(* inherit from Object.prototype only *)
RECURSIVE JsonCompatible(_)
JsonCompatible(v) ==
  CASE KindOf(v) = "number" -> v.fin
    [] KindOf(v) = "array" -> \A i \in 1..Len(v.elems) : JsonCompatible(v.elems[i])
    [] KindOf(v) = "object" ->
         /\ v.inherited = ObjectPrototype
         /\ \A i \in 1..Len(v.own) : JsonCompatible(v.own[i][2])
    [] OTHER -> TRUE

(* the value that the path leads to from the value v: an own property *)
(* for a name, an element for an index *)
RECURSIVE Follow(_, _)
Follow(v, path) ==
  IF path = <<>> THEN [found |-> TRUE, value |-> v]
  ELSE LET step == Head(path)
       IN IF "key" \in DOMAIN step
          THEN IF KindOf(v) = "object" /\ step.key \in OwnNames(v)
               THEN Follow(OwnValue(v, step.key), Tail(path))
               ELSE [found |-> FALSE]
          ELSE IF KindOf(v) = "array" /\ step.index \in 0..(Len(v.elems) - 1)
               THEN Follow(v.elems[step.index + 1], Tail(path))
               ELSE [found |-> FALSE]

(* the <<depth, message>> of every failure that a node of the schema has *)
(* of its own on the value it meets in the data, the node met by v being *)
(* at the given depth *)
RECURSIVE OwnFailures(_, _, _)
OwnFailures(node, v, depth) ==
  LET r == validator(node, v)
      here == IF ~r.ok /\ r.path = <<>> THEN {<<depth, r.message>>} ELSE {}
      below ==
        IF KindOf(v) = "object"
        THEN UNION {IF v.own[i][1] \in DeclaredNames(node)
                    THEN OwnFailures(DeclaredNode(node, v.own[i][1]), v.own[i][2],
                                     depth + 1)
                    ELSE IF AdditionalSchema(node)
                    THEN OwnFailures(node.additionalProperties.node, v.own[i][2],
                                     depth + 1)
                    ELSE {} : i \in 1..Len(v.own)}
        ELSE IF KindOf(v) = "array" /\ "items" \in DOMAIN node
        THEN UNION {OwnFailures(node.items, v.elems[i], depth + 1) :
                      i \in 1..Len(v.elems)}
        ELSE {}
  IN here \cup below

(* C22: for a failure on JSON-compatible data, the path followed from the *)
(* root of the data, by own property and by element, ends at a value v of *)
(* the data; the failure is one that a schema node as deep as the path is *)
(* long has of its own on the value it meets; and `received` is v for the *)
(* failures that echo a value and the length of v for the size failures. *)
C22_PathInData ==
  (called /\ ~result.ok /\ JsonCompatible(data)) =>
    LET v == Follow(data, result.path)
    IN /\ v.found
       /\ <<Len(result.path), result.message>> \in OwnFailures(schema, data, 0)
       /\ ValueFailure(result.message) => result.received = <<v.value>>
       /\ SizeFailure(result.message) =>
            result.received = <<IntNum(LengthOf(v.value))>>

(* the value three steps down that is no email *)
C22_Witness ==
  /\ called
  /\ ~result.ok
  /\ Len(result.path) = 3
  /\ Follow(data, result.path) = [found |-> TRUE, value |-> Str(<<"n", "o">>)]
  /\ result.received = <<Str(<<"n", "o">>)>>

(* a string one step down that is too short: its length *)
C22_WitnessLength ==
  /\ called
  /\ ~result.ok
  /\ Len(result.path) = 1
  /\ SizeFailure(result.message)
  /\ Follow(data, result.path) = [found |-> TRUE, value |-> Str(<<"a">>)]
  /\ result.received = <<IntNum(1)>>

====
